---- MODULE Spec2Model ----
(***************************************************************************)
(* State-machine model of the QP planning variants of differentiable_rmap: *)
(* RmapPlanningFootstep<SE2> and RmapPlanningLocomanip.                     *)
(*                                                                         *)
(* Numbers are integers.  A planar rigid-motion sample is <<x, y, th>>,    *)
(* th counted in quarter turns, so that rotations are exact.  Flat QP      *)
(* vectors are functions on 0..n-1 and matrices are functions on           *)
(* (0..r-1) \X (0..c-1), following the 0-based indices of the source.      *)
(***************************************************************************)
EXTENDS Integers, Sequences, FiniteSets, TLC

\* ------------------------------------------------------------------ bounds
MaxFootstepNum == 3
MaxMotionLen == 2
MaxIter == 2

\* ------------------------------------------------- sampling space (SE2)
\* velDim<SamplingSpace::SE2>()
VelDim == 3

identity_sample == <<0, 0, 0>>

Cos4(th) == CASE th % 4 = 0 -> 1 [] th % 4 = 2 -> -1 [] OTHER -> 0
Sin4(th) == CASE th % 4 = 1 -> 1 [] th % 4 = 3 -> -1 [] OTHER -> 0

\* R(th) * p and R(th)^T * p for a planar vector p
Rot(th, p) == <<Cos4(th) * p[1] - Sin4(th) * p[2], Sin4(th) * p[1] + Cos4(th) * p[2]>>
RotT(th, p) == <<Cos4(th) * p[1] + Sin4(th) * p[2], Cos4(th) * p[2] - Sin4(th) * p[1]>>

\* A pose is [trans |-> <<x, y>>, yaw |-> th]
IdentityPose == [trans |-> <<0, 0>>, yaw |-> 0]

poseToSample(pose) == <<pose.trans[1], pose.trans[2], pose.yaw>>

sampleToPose(s) == [trans |-> <<s[1], s[2]>>, yaw |-> s[3]]

\* sva::PTransformd product a * b: b is applied first, then a in b's frame
PoseMul(a, b) ==
  LET r == Rot(b.yaw, a.trans)
  IN  [trans |-> <<b.trans[1] + r[1], b.trans[2] + r[2]>>, yaw |-> a.yaw + b.yaw]

integrateVelToSample(sample, vel) ==
  <<sample[1] + vel[1], sample[2] + vel[2], sample[3] + vel[3]>>

sampleError(pre_sample, suc_sample) ==
  <<suc_sample[1] - pre_sample[1], suc_sample[2] - pre_sample[2], suc_sample[3] - pre_sample[3]>>

\* successor expressed in the predecessor's frame
relSample(pre_sample, suc_sample) ==
  LET d == RotT(pre_sample[3], <<suc_sample[1] - pre_sample[1], suc_sample[2] - pre_sample[2]>>)
  IN  <<d[1], d[2], suc_sample[3] - pre_sample[3]>>

\* Jacobian of relSample w.r.t. the velocity of the successor (wrt_suc) or of
\* the predecessor; a 3x3 matrix as a tuple of rows
relVelToVelMat(pre_sample, suc_sample, wrt_suc) ==
  LET c == Cos4(pre_sample[3])
      s == Sin4(pre_sample[3])
      px == suc_sample[1] - pre_sample[1]
      py == suc_sample[2] - pre_sample[2]
  IN  IF wrt_suc
      THEN << <<c, s, 0>>, <<0 - s, c, 0>>, <<0, 0, 1>> >>
      ELSE << <<0 - c, 0 - s, c * py - s * px>>,
              <<s, 0 - c, 0 - (c * px + s * py)>>,
              <<0, 0, -1>> >>

\* ----------------------------------------------------------- classifier
\* The trained classifier is an external input.  The model uses a
\* polynomial bump around a centre; the centre is off every axis so that a
\* mirrored sample has another value and another gradient.
SvmRadius2 == 9

SvmCentre(limb) ==
  CASE limb = "LeftFoot" -> <<1, 1, 1>>
    [] limb = "RightFoot" -> <<1, -1, -1>>
    [] OTHER -> <<2, 0, 0>>

SqNorm(v) == v[1] * v[1] + v[2] * v[2] + v[3] * v[3]

calcSVMValue(limb, sample) == SvmRadius2 - SqNorm(sampleError(SvmCentre(limb), sample))

calcSVMGrad(limb, sample) ==
  LET e == sampleError(SvmCentre(limb), sample)
  IN  <<0 - 2 * e[1], 0 - 2 * e[2], 0 - 2 * e[3]>>

\* ------------------------------------------------------- linear algebra
Zeros(n) == [k \in 0..(n - 1) |-> 0]

ZeroMat(r, c) == [rc \in (0..(r - 1)) \X (0..(c - 1)) |-> 0]

\* v.template segment<VelDim>(start)
Segment(v, start) == <<v[start], v[start + 1], v[start + 2]>>

\* row vector g (1 x 3) times matrix J (3 x 3)
RowTimesMat(g, J) ==
  [j \in 1..VelDim |-> g[1] * J[1][j] + g[2] * J[2][j] + g[3] * J[3][j]]

NegVec(v) == [j \in 1..VelDim |-> 0 - v[j]]

\* M.block<1, VelDim>(row, col) = v
SetRowBlock(M, row, col, v) ==
  [rc \in DOMAIN M |->
     IF rc[1] = row /\ rc[2] >= col /\ rc[2] < col + VelDim
     THEN v[rc[2] - col + 1] ELSE M[rc]]

\* M.block<VelDim, VelDim>(row, col).diagonal().setConstant(val)
SetBlockDiag(M, row, col, val) ==
  [rc \in DOMAIN M |->
     IF rc[1] >= row /\ rc[1] < row + VelDim /\ rc[1] - row = rc[2] - col
     THEN val ELSE M[rc]]

\* rel_sample.template tail<2>() *= -1
MirrorSample(s) == <<s[1], 0 - s[2], 0 - s[3]>>

\* rel_vel_mat.template bottomRows<2>() *= -1
MirrorBottomRows(J) == <<J[1], NegVec(J[2]), NegVec(J[3])>>

\* row r of M times v, over the columns 0 .. c
RECURSIVE RowDot(_, _, _, _)
RowDot(M, v, r, c) ==
  IF c < 0 THEN 0
  ELSE (IF M[<<r, c>>] = 0 THEN 0 ELSE M[<<r, c>>] * v[c]) + RowDot(M, v, r, c - 1)

\* M * v for a square matrix M of n rows
MatVec(M, v, n) == [r \in 0..(n - 1) |-> RowDot(M, v, r, n - 1)]

\* v.template segment<VelDim>(start) = block
SetSegment(v, start, block) ==
  [k \in DOMAIN v |-> IF k >= start /\ k < start + VelDim THEN block[k - start + 1] ELSE v[k]]

\* M.diagonal().segment(start, len).array() += val
AddDiag(M, start, len, val) ==
  [rc \in DOMAIN M |->
     IF rc[1] = rc[2] /\ rc[1] >= start /\ rc[1] < start + len THEN M[rc] + val ELSE M[rc]]

\* M.topLeftCorner(n, n) += scale * A
AddTopLeft(M, A, n, scale) ==
  [rc \in DOMAIN M |-> IF rc[1] < n /\ rc[2] < n THEN M[rc] + scale * A[rc] ELSE M[rc]]

\* ------------------------------------------------------------- objective
\* The entries of obj_mat_ are counted in thousandths, so that the 1e-3 of
\* lambda is the integer 1; the entries of obj_vec_ are counted in units.
ObjScale == 1000

\* M.diagonal().segment(start, len).setConstant(val)
SetDiag(M, start, len, val) ==
  [rc \in DOMAIN M |->
     IF rc[1] = rc[2] /\ rc[1] >= start /\ rc[1] < start + len THEN val ELSE M[rc]]

\* lambda = squaredNorm + eps, in thousandths
Lambda(err, eps_milli) == ObjScale * SqNorm(err) + eps_milli

\* current_config: the waypoints as velocities from the identity sample
CurrentConfig(seq, n, v, start) ==
  [k \in DOMAIN v |->
     IF k >= start /\ k < start + n * VelDim
     THEN sampleError(identity_sample, seq[(k - start) \div VelDim])[((k - start) % VelDim) + 1]
     ELSE v[k]]

\* a + b on the first n entries of a
AddHead(a, b, n) == [k \in DOMAIN a |-> IF k < n THEN a[k] + b[k] ELSE a[k]]

\* v.segment(start, VelDim) -= w * block
SubSegment(v, start, w, block) ==
  [k \in DOMAIN v |->
     IF k >= start /\ k < start + VelDim THEN v[k] - w * block[k - start + 1] ELSE v[k]]

\* ------------------------------------------------------------- QP solver
\* A number c * 10^e, for bounds such as 1e10 that exceed the integers of
\* the model checker
Sci(c, e) == <<c, e>>

\* OmgCore::QpCoeff::setup(dim_var, dim_eq, dim_ineq)
QpCoeffSetup(dim_var, dim_eq, dim_ineq) ==
  [dim_var |-> dim_var, dim_eq |-> dim_eq, dim_ineq |-> dim_ineq,
   x_min |-> [k \in 0..(dim_var - 1) |-> Sci(0, 0)],
   x_max |-> [k \in 0..(dim_var - 1) |-> Sci(0, 0)],
   ineq_mat |-> ZeroMat(dim_ineq, dim_var),
   ineq_vec |-> Zeros(dim_ineq)]

\* v.head(n).setConstant(val) and v.tail(n).setConstant(val)
SetHead(v, n, val) == [k \in DOMAIN v |-> IF k < n THEN val ELSE v[k]]
SetTail(v, n, val) ==
  [k \in DOMAIN v |-> IF k >= Cardinality(DOMAIN v) - n THEN val ELSE v[k]]

\* The velocity of waypoint block b in the non-zero vector the solver may
\* return
BlockVel(b) == IF b % 2 = 0 THEN <<1, 0, 0>> ELSE <<0, 1, 1>>

\* qp_solver_->solve(qp_coeff_): the solver is external; it returns some
\* vector of dim_var entries and sets solve_failed_.  The vectors are the
\* zero vector and one that moves every waypoint block.
SolverOutputs(dim_var, n_blocks) ==
  {Zeros(dim_var),
   [k \in 0..(dim_var - 1) |->
      IF k < n_blocks * VelDim THEN BlockVel(k \div VelDim)[(k % VelDim) + 1] ELSE 0]}

\* ------------------------------------------------------------ variables
VARIABLES
  variant,               \* which planner the process runs
  phase,                 \* "constructed", "configured", "setup"
  iter,                  \* number of runOnce calls made
  solve_failed,          \* qp_solver_->solve_failed_
  solver_vel,            \* the vector the last solve() returned
  publish_arg,           \* argument of the last runOnce call
  raised,                \* exception that left the last runOnce call
  report,                \* what the last runOnce call handed to its caller
  published,             \* pose array last handed to the display publisher
  fs_config,             \* RmapPlanningFootstep::config_
  fs_qp_coeff,           \* RmapPlanningFootstep::qp_coeff_
  fs_adjacent_reg_mat,   \* RmapPlanningFootstep::adjacent_reg_mat_
  current_sample_seq,    \* RmapPlanningFootstep::current_sample_seq_
  fs_svm_query,          \* samples given to the classifier in the last runOnce
  lm_config,             \* RmapPlanningLocomanip::config_
  config_dim,            \* RmapPlanningLocomanip::config_dim_
  svm_ineq_dim,          \* RmapPlanningLocomanip::svm_ineq_dim_
  collision_ineq_dim,    \* RmapPlanningLocomanip::collision_ineq_dim_
  hand_start_config_idx, \* RmapPlanningLocomanip::hand_start_config_idx_
  lm_qp_coeff,           \* RmapPlanningLocomanip::qp_coeff_
  lm_adjacent_reg_mat,   \* RmapPlanningLocomanip::adjacent_reg_mat_
  start_sample_list,     \* RmapPlanningLocomanip::start_sample_list_
  current_foot_sample_seq, \* RmapPlanningLocomanip::current_foot_sample_seq_
  current_hand_sample_seq, \* RmapPlanningLocomanip::current_hand_sample_seq_
  lm_svm_query,          \* limb and sample given to the classifier, per row
  lm_target_error,       \* target_sample_error written into obj_vec_ by the last runOnce
  lm_pc,                 \* position of runLoop ("none": runLoop not called)
  loop_idx,              \* runLoop's loop_idx
  ros_ok,                \* ros::ok()
  grid_loaded,           \* grid_set_msg_ is not null (a grid bag was given)
  marker_published,      \* marker array last handed to marker_arr_pub_
  target_hand_sample,    \* RmapPlanningLocomanip::target_hand_sample_, and
                         \* target_sample_ of the footstep planner
  qp_obj,                \* obj_vec_ and obj_mat_ of the planner's qp_coeff_, as
                         \* ObjectiveSpec follows them
  trans_queue,           \* messages waiting in the queue of trans_sub_
  util_call,             \* last call of a factory or utility function, with its outcome
  sample_list,           \* RmapSampling::sample_list_
  reachability_list,     \* RmapSampling::reachability_list_
  sample_set_msg         \* message last written by dumpSampleSet

util_vars == <<util_call, sample_list, reachability_list, sample_set_msg>>

target_vars == <<target_hand_sample, trans_queue>>

common_vars == <<variant, phase, iter, solve_failed, solver_vel, publish_arg, raised, report,
                 published, grid_loaded, marker_published, util_vars, qp_obj>>

fs_vars == <<fs_config, fs_qp_coeff, fs_adjacent_reg_mat, current_sample_seq, fs_svm_query>>

lm_dims == <<config_dim, svm_ineq_dim, collision_ineq_dim, hand_start_config_idx>>

lm_vars == <<lm_config, lm_dims, lm_qp_coeff, lm_adjacent_reg_mat, start_sample_list,
             current_foot_sample_seq, current_hand_sample_seq, lm_svm_query,
             lm_target_error>>

loop_vars == <<lm_pc, loop_idx, ros_ok>>

vars == <<common_vars, fs_vars, lm_vars, loop_vars, target_vars>>

\* --------------------------------------------------------- configuration
\* delta_config_limit, adjacent_reg_weight and svm_thre, set together
TuningChoices ==
  {[delta_config_limit |-> 1, adjacent_reg_weight |-> 1, svm_thre |-> 0],
   [delta_config_limit |-> 2, adjacent_reg_weight |-> 3, svm_thre |-> 1]}
InitialPoseChoices == {[trans |-> <<1, 1>>, yaw |-> 1], [trans |-> <<2, 0>>, yaw |-> 0]}

\* int footstep_num = 3
DefaultFootstepNum == 3

FootstepDefaultConfig ==
  [footstep_num |-> DefaultFootstepNum, alternate_lr |-> FALSE,
   tuning |-> CHOOSE t \in TuningChoices : t.adjacent_reg_weight = 1,
   initial_sample_pose |-> IdentityPose]

FootstepConfigs ==
  [footstep_num : 1..MaxFootstepNum, alternate_lr : BOOLEAN,
   tuning : TuningChoices, initial_sample_pose : InitialPoseChoices]

\* ------------------------------------------------ RmapPlanningFootstep
\* initial_sample_pose mirrored for an odd step: y and yaw negated
MirrorPoseLateralOnly(pose) == [trans |-> <<pose.trans[1], 0 - pose.trans[2]>>, yaw |-> pose.yaw]
MirrorPose(pose) == [trans |-> <<pose.trans[1], 0 - pose.trans[2]>>, yaw |-> 0 - pose.yaw]

\* the step pose used at index i of setup()
FootstepInitialPose(cfg, i) ==
  IF cfg.alternate_lr /\ i % 2 = 1
  THEN MirrorPose(cfg.initial_sample_pose)
  ELSE cfg.initial_sample_pose

\* the loop of setup() that fills current_sample_seq_: the pose accumulated
\* after steps 0..i
RECURSIVE FootstepAccumPose(_, _)
FootstepAccumPose(cfg, i) ==
  IF i < 0 THEN IdentityPose
  ELSE PoseMul(FootstepInitialPose(cfg, i), FootstepAccumPose(cfg, i - 1))

\* (i == n - 1 ? 1 : 2) * adjacent_reg_weight
DiagWeightAllTwo(i, n, w) == 2 * w
DiagWeight(i, n, w) == (IF i = n - 1 THEN 1 ELSE 2) * w

\* the adjacency loop: steps i..n-1 written into M for the chain whose first
\* variable is at index start
RECURSIVE SetAdjacentReg(_, _, _, _, _)
SetAdjacentReg(M, i, n, w, start) ==
  IF i >= n THEN M
  ELSE LET d == SetBlockDiag(M, start + i * VelDim, start + i * VelDim, DiagWeight(i, n, w))
           o == IF i # n - 1
                THEN SetBlockDiag(
                       SetBlockDiag(d, start + (i + 1) * VelDim, start + i * VelDim, 0 - w),
                       start + i * VelDim, start + (i + 1) * VelDim, 0 - w)
                ELSE d
       IN  SetAdjacentReg(o, i + 1, n, w, start)

\* current_sample_seq_.resize(n): the number of waypoints kept
ResizeOneLess(n) == n - 1
Resize(n) == n

\* qp_coeff_.setup(vel_dim_ * footstep_num, 0, footstep_num): the variables
FootstepDimVar(n) == VelDim * n

\* what configure() leaves of a sequence of waypoints: it loads config_ and
\* touches nothing else
ConfigureResetsTrajectory(seq) == [i \in DOMAIN seq |-> identity_sample]
ConfigureKeepsTrajectory(seq) == seq

\* configure(): config_.load().  A call after setup() is taken with the values
\* that setup() has sized and filled the QP from (footstep_num and the tuning)
\* as they are.
FS_configure ==
  /\ variant = "footstep"
  /\ \E cfg \in FootstepConfigs :
       /\ phase = "setup" =>
            /\ cfg.footstep_num = fs_config.footstep_num
            /\ cfg.tuning = fs_config.tuning
            /\ cfg.alternate_lr = fs_config.alternate_lr
       /\ fs_config' = cfg
  /\ current_sample_seq' = ConfigureKeepsTrajectory(current_sample_seq)
  /\ phase' = IF phase = "setup" THEN "setup" ELSE "configured"
  /\ UNCHANGED <<variant, grid_loaded, qp_obj, util_vars, target_vars, iter, solve_failed, solver_vel, publish_arg, raised, report, published, marker_published,
                 fs_qp_coeff, fs_adjacent_reg_mat, fs_svm_query,
                 lm_vars, loop_vars>>

FS_setup ==
  /\ variant = "footstep"
  /\ phase = "configured"
  /\ LET n == fs_config.footstep_num
         q == QpCoeffSetup(FootstepDimVar(n), 0, n)
     IN  /\ fs_qp_coeff' =
              [q EXCEPT !.x_min = [k \in DOMAIN q.x_min |-> Sci(0 - fs_config.tuning.delta_config_limit, 0)],
                        !.x_max = [k \in DOMAIN q.x_max |-> Sci(fs_config.tuning.delta_config_limit, 0)]]
         /\ current_sample_seq' =
              [i \in 0..(Resize(n) - 1) |-> poseToSample(FootstepAccumPose(fs_config, i))]
         /\ fs_adjacent_reg_mat' =
              SetAdjacentReg(ZeroMat(q.dim_var, q.dim_var), 0, n,
                             fs_config.tuning.adjacent_reg_weight, 0)
  /\ phase' = "setup"
  /\ UNCHANGED <<variant, grid_loaded, qp_obj, util_vars, target_vars, iter, solve_failed, solver_vel, publish_arg, raised, report, published, marker_published,
                 fs_config, fs_svm_query, lm_vars, loop_vars>>

\* config_.alternate_lr && (i % 2 == 1)
FootstepMirroredEven(cfg, i) == cfg.alternate_lr /\ i % 2 = 0
FootstepMirrored(cfg, i) == cfg.alternate_lr /\ i % 2 = 1

\* the sample of step i given to the classifier
FootstepRelSample(cfg, seq, i) ==
  LET pre_sample == IF i = 0 THEN poseToSample(IdentityPose) ELSE seq[i - 1]
      rel_sample == relSample(pre_sample, seq[i])
  IN  IF FootstepMirrored(cfg, i) THEN MirrorSample(rel_sample) ELSE rel_sample

\* the Jacobian of step i as used in the row, mirrored for an odd step
FootstepRelVelMat(cfg, seq, i, wrt_suc) ==
  LET pre_sample == IF i = 0 THEN poseToSample(IdentityPose) ELSE seq[i - 1]
      rel_vel_mat == relVelToVelMat(pre_sample, seq[i], wrt_suc)
  IN  IF FootstepMirrored(cfg, i) THEN MirrorBottomRows(rel_vel_mat) ELSE rel_vel_mat

\* right-hand side of a reachability row
IneqRhsNegated(value, svm_thre) == svm_thre - value
IneqRhs(value, svm_thre) == value - svm_thre

\* first column of the block of the predecessor of waypoint i
PreBlockColNext(i) == (i + 1) * VelDim
PreBlockCol(i) == (i - 1) * VelDim

\* the inequality loop of runOnce: rows i..n-1 written into q
RECURSIVE FootstepIneqLoop(_, _, _, _)
FootstepIneqLoop(q, cfg, seq, i) ==
  IF i >= cfg.footstep_num THEN q
  ELSE LET rel_sample == FootstepRelSample(cfg, seq, i)
           svm_grad == calcSVMGrad("LeftFoot", rel_sample)
           m1 == SetRowBlock(q.ineq_mat, i, i * VelDim,
                   NegVec(RowTimesMat(svm_grad, FootstepRelVelMat(cfg, seq, i, TRUE))))
           m2 == IF i > 0
                 THEN SetRowBlock(m1, i, PreBlockCol(i),
                        NegVec(RowTimesMat(svm_grad, FootstepRelVelMat(cfg, seq, i, FALSE))))
                 ELSE m1
           b == [q.ineq_vec EXCEPT
                   ![i] = IneqRhs(calcSVMValue("LeftFoot", rel_sample), cfg.tuning.svm_thre)]
       IN  FootstepIneqLoop([q EXCEPT !.ineq_mat = m2, !.ineq_vec = b], cfg, seq, i + 1)

\* the velocity integrated after the solve: the solver's vector as returned
FootstepVelAll(vel_all, failed) == vel_all

\* what runOnce gives its caller: it returns void, whatever the solver said
RunOnceReportFlag(failed) == IF failed THEN "failed" ELSE "void"
RunOnceReport(failed) == "void"

\* geometry_msgs::PoseArray of publishCurrentState(): the identity pose,
\* then the pose of every step
FootstepPoseArray(seq, n) ==
  [i \in 0..n |-> IF i = 0 THEN IdentityPose ELSE sampleToPose(seq[i - 1])]

\* visualization_msgs::MarkerArray of publishMarkerArray(): the delete marker,
\* then one grid marker per step when a grid is loaded
FootstepMarkerArray(cfg, grid) ==
  <<[ns |-> "DELETEALL", idx |-> 0, points |-> "none"]>> \o
  (IF grid
   THEN [i \in 1..cfg.footstep_num |->
           [ns |-> "reachable_grids", idx |-> i - 1, points |-> "grid"]]
   ELSE <<>>)

\* a message with its header stamp (the iteration that made it)
Stamped(stamp, body) == [stamp |-> stamp, body |-> body]

\* the trajectory runOnce builds the inequality rows from: the QP is filled
\* before the solve and the integration
QpTrajectoryAfterIntegrate(before, after) == after
QpTrajectory(before, after) == before

\* the trajectory runOnce hands to the pose publisher
PublishedBeforeIntegrate(before, after) == before
PublishedSeq(before, after) == after

\* the error written into the tail of obj_vec_: sampleError(target, last
\* waypoint), the velocity that takes the target to the last waypoint
FootstepTargetErrorTowardsTarget(target, seq, n) == sampleError(seq[n - 1], target)
FootstepTargetError(target, seq, n) == sampleError(target, seq[n - 1])

\* the objective runOnce writes before the inequality rows
FootstepObjective(dim, cfg, seq, target, adj) ==
  LET n == cfg.footstep_num
      err == FootstepTargetError(target, seq, n)
      vec0 == SetSegment(Zeros(dim), dim - VelDim, err)
      lambda == Lambda(err, 1)
      mat0 == SetDiag(ZeroMat(dim, dim), dim - VelDim, VelDim, ObjScale)
      mat1 == AddDiag(mat0, 0, dim, lambda)
      current_config == CurrentConfig(seq, n, Zeros(dim), 0)
  IN  [obj_vec |-> AddHead(vec0, MatVec(adj, current_config, dim), dim),
       obj_mat |-> AddTopLeft(mat1, adj, dim, ObjScale)]

\* runOnce(publish) but for obj_mat_ and obj_vec_
FS_runOnceCall ==
  /\ variant = "footstep"
  /\ phase = "setup"
  /\ iter < MaxIter
  /\ \E publish \in BOOLEAN, failed \in BOOLEAN,
        vel_all \in SolverOutputs(fs_qp_coeff.dim_var, fs_config.footstep_num) :
       LET n == fs_config.footstep_num
           cleared == [fs_qp_coeff EXCEPT !.ineq_mat = ZeroMat(n, fs_qp_coeff.dim_var),
                                          !.ineq_vec = Zeros(n)]
           vel == FootstepVelAll(vel_all, failed)
           seq == [i \in 0..(n - 1) |->
                     integrateVelToSample(current_sample_seq[i], Segment(vel, i * VelDim))]
           qp_seq == QpTrajectory(current_sample_seq, seq)
       IN  /\ fs_qp_coeff' = FootstepIneqLoop(cleared, fs_config, qp_seq, 0)
           /\ fs_svm_query' =
                [i \in 0..(n - 1) |-> FootstepRelSample(fs_config, qp_seq, i)]
           /\ solve_failed' = failed
           /\ solver_vel' = vel_all
           /\ current_sample_seq' = seq
           /\ publish_arg' = publish
           /\ published' =
                IF publish
                THEN Stamped(iter + 1,
                       FootstepPoseArray(PublishedSeq(current_sample_seq, seq), n))
                ELSE published
           /\ marker_published' =
                IF publish
                THEN Stamped(iter + 1, FootstepMarkerArray(fs_config, grid_loaded))
                ELSE marker_published
           /\ raised' = "none"
           /\ report' = RunOnceReport(failed)
  /\ iter' = iter + 1
  /\ UNCHANGED <<variant, grid_loaded, util_vars, target_vars, phase, fs_config, fs_adjacent_reg_mat, lm_vars, loop_vars>>

\* runOnce(publish), the objective not followed
FS_runOnce ==
  /\ FS_runOnceCall
  /\ UNCHANGED qp_obj

\* runOnce(publish) with the objective it writes first
FS_runOnceObjective ==
  /\ FS_runOnceCall
  /\ qp_obj' = FootstepObjective(fs_qp_coeff.dim_var, fs_config, current_sample_seq,
                                 target_hand_sample, fs_adjacent_reg_mat)

\* ----------------------------------------------- RmapPlanningLocomanip
\* Limbs::all
Limbs == {"LeftFoot", "RightFoot", "LeftHand"}

\* initial_sample_pose_list: a pose for some of the limbs
PoseListChoices ==
  {[l \in Limbs |-> CASE l = "LeftFoot" -> [trans |-> <<0, 1>>, yaw |-> 0]
                      [] l = "RightFoot" -> [trans |-> <<0, -1>>, yaw |-> 1]
                      [] OTHER -> [trans |-> <<1, 0>>, yaw |-> 0]],
   [l \in {"LeftFoot"} |-> [trans |-> <<1, 1>>, yaw |-> 1]],
   [l \in {"RightFoot", "LeftHand"} |-> [trans |-> <<0, -1>>, yaw |-> 0]]}

PublishIntervalChoices == {1, 2}

LocomanipDefaultConfig ==
  [motion_len |-> 1, tuning |-> CHOOSE t \in TuningChoices : t.adjacent_reg_weight = 1,
   initial_sample_pose_list |-> <<>>, publish_interval |-> 1]

\* the configurations tried: with the poses of all limbs, every tuning at
\* publish interval 1 and the weight-1 tuning at the other intervals; and one
\* configuration for each incomplete pose list
LocomanipConfigs ==
  {c \in [motion_len : 1..MaxMotionLen, tuning : TuningChoices,
          initial_sample_pose_list : PoseListChoices,
          publish_interval : PublishIntervalChoices] :
     \/ /\ DOMAIN c.initial_sample_pose_list = Limbs
        /\ c.tuning.adjacent_reg_weight = 1 \/ c.publish_interval = 1
     \/ /\ DOMAIN c.initial_sample_pose_list = {"LeftFoot"}
        /\ c.tuning.adjacent_reg_weight = 1
        /\ c.publish_interval = 2
     \/ /\ DOMAIN c.initial_sample_pose_list = {"RightFoot", "LeftHand"}
        /\ c.tuning.adjacent_reg_weight # 1
        /\ c.publish_interval = 1}

\* svm_ineq_dim_ = 3 * config_.motion_len - 1
SvmIneqDimFootOnly(motion_len) == motion_len
SvmIneqDim(motion_len) == 3 * motion_len - 1

\* config_dim_ + svm_ineq_dim_ + collision_ineq_dim_: the variables
LocomanipDimVarNoSlack(cdim, sdim, cidim) == cdim
LocomanipDimVar(cdim, sdim, cidim) == cdim + sdim + cidim

\* the bound given to the slack variables
SlackBoundAsVelocity(delta) == Sci(delta, 0)
SlackBound(delta) == Sci(1, 10)

\* the bounds written by setup()
LocomanipBounds(q, cdim, n_slack, delta) ==
  [q EXCEPT
     !.x_min = SetTail(SetHead(q.x_min, cdim, Sci(0 - delta, 0)), n_slack,
                       <<0 - SlackBound(delta)[1], SlackBound(delta)[2]>>),
     !.x_max = SetTail(SetHead(q.x_max, cdim, Sci(delta, 0)), n_slack, SlackBound(delta))]

\* start_sample_list_.emplace(limb, ...): inserted only when the limb has no entry
StartSampleAssign(list, cfg) ==
  [l \in Limbs |->
     poseToSample(IF l \in DOMAIN cfg.initial_sample_pose_list
                  THEN cfg.initial_sample_pose_list[l]
                  ELSE IdentityPose)]
StartSampleEmplace(list, cfg) ==
  [l \in Limbs |->
     IF l \in DOMAIN list THEN list[l]
     ELSE poseToSample(IF l \in DOMAIN cfg.initial_sample_pose_list
                       THEN cfg.initial_sample_pose_list[l]
                       ELSE IdentityPose)]

\* the limb whose start sample and classifier belong to foot step i
FootLimbRightFirst(i) == IF i % 2 = 0 THEN "RightFoot" ELSE "LeftFoot"
FootLimb(i) == IF i % 2 = 0 THEN "LeftFoot" ELSE "RightFoot"

\* everything setup() assigns
LM_setupBody ==
  LET n == lm_config.motion_len
      w == lm_config.tuning.adjacent_reg_weight
      cdim == 2 * n * VelDim
      sdim == SvmIneqDim(n)
      cidim == 0
      hstart == n * VelDim
      q == QpCoeffSetup(LocomanipDimVar(cdim, sdim, cidim), 0, sdim + cidim)
      starts == StartSampleEmplace(start_sample_list, lm_config)
  IN  /\ config_dim' = cdim
      /\ svm_ineq_dim' = sdim
      /\ collision_ineq_dim' = cidim
      /\ hand_start_config_idx' = hstart
      /\ lm_qp_coeff' = LocomanipBounds(q, cdim, sdim + cidim, lm_config.tuning.delta_config_limit)
      /\ start_sample_list' = starts
      /\ current_foot_sample_seq' = [i \in 0..(Resize(n) - 1) |-> starts[FootLimb(i)]]
      /\ current_hand_sample_seq' = [i \in 0..(Resize(n) - 1) |-> starts["LeftHand"]]
      /\ lm_adjacent_reg_mat' =
           SetAdjacentReg(SetAdjacentReg(ZeroMat(cdim, cdim), 0, n, w, 0), 0, n, w, hstart)

\* the foot-to-foot sample of step i and its predecessor
LocomanipPreSample(starts, foot_seq, i) ==
  IF i = 0 THEN starts["RightFoot"] ELSE foot_seq[i - 1]

\* the foot-to-foot loop of runOnce: rows i..motion_len-1 written into q
RECURSIVE LocomanipIneqLoop(_, _, _, _, _)
LocomanipIneqLoop(q, cfg, starts, foot_seq, i) ==
  IF i >= cfg.motion_len THEN q
  ELSE LET pre_foot_sample == LocomanipPreSample(starts, foot_seq, i)
           suc_foot_sample == foot_seq[i]
           rel_sample == relSample(pre_foot_sample, suc_foot_sample)
           rel_svm_grad == calcSVMGrad(FootLimb(i), rel_sample)
           m1 == IF i > 0
                 THEN SetRowBlock(q.ineq_mat, i, PreBlockCol(i),
                        NegVec(RowTimesMat(rel_svm_grad,
                                 relVelToVelMat(pre_foot_sample, suc_foot_sample, FALSE))))
                 ELSE q.ineq_mat
           m2 == SetRowBlock(m1, i, i * VelDim,
                   NegVec(RowTimesMat(rel_svm_grad,
                            relVelToVelMat(pre_foot_sample, suc_foot_sample, TRUE))))
           b == [q.ineq_vec EXCEPT
                   ![i] = IneqRhs(calcSVMValue(FootLimb(i), rel_sample), cfg.tuning.svm_thre)]
       IN  LocomanipIneqLoop([q EXCEPT !.ineq_mat = m2, !.ineq_vec = b],
                             cfg, starts, foot_seq, i + 1)

\* ineq_mat_.rightCols(n_slack).diagonal().head(n_svm).setConstant(-1)
SetSlackDiagLeftCols(M, dim_var, n_slack, n_svm) ==
  [rc \in DOMAIN M |-> IF rc[1] < n_svm /\ rc[2] = rc[1] THEN -1 ELSE M[rc]]
SetSlackDiag(M, dim_var, n_slack, n_svm) ==
  [rc \in DOMAIN M |->
     IF rc[1] < n_svm /\ rc[2] = dim_var - n_slack + rc[1] THEN -1 ELSE M[rc]]

\* the velocity integrated after the solve: zero when the solver failed
LocomanipVelAllNoCheck(vel_all, failed) == vel_all
LocomanipVelAll(vel_all, failed) ==
  IF failed THEN [k \in DOMAIN vel_all |-> 0] ELSE vel_all

\* publishCurrentState() reads initial_sample_pose_list.at() for both feet
PublishCurrentStateRaisesBothMissing(cfg) ==
  DOMAIN cfg.initial_sample_pose_list \cap {"LeftFoot", "RightFoot"} = {}
PublishCurrentStateRaises(cfg) ==
  ~({"LeftFoot", "RightFoot"} \subseteq DOMAIN cfg.initial_sample_pose_list)

\* geometry_msgs::PoseArray of publishCurrentState(): feet, then hands
LocomanipPoseArray(foot_seq, hand_seq, n) ==
  [i \in 0..(2 * n - 1) |->
     sampleToPose(IF i < n THEN foot_seq[i] ELSE hand_seq[i - n])]

\* publishMarkerArray() reads grid_set_msg->divide_nums of the foot planners
\* without testing the pointer: with no grid loaded the read is undefined,
\* and the build either dies there or goes on with whatever it read
NullGridOutcomes == {"segfault", "garbage"}

\* visualization_msgs::MarkerArray of publishMarkerArray(): the delete marker,
\* then one grid marker per foot step
LocomanipMarkerArray(cfg, grid) ==
  <<[ns |-> "DELETEALL", idx |-> 0, points |-> "none"]>> \o
  [i \in 1..cfg.motion_len |->
     [ns |-> "foot_reachable_grids", idx |-> i - 1,
      points |-> IF grid THEN "grid" ELSE "garbage"]]

\* transCallback(trans_st_msg)
transCallback(target, msg) ==
  IF msg.child_frame_id = "target" THEN poseToSample(msg.transform) ELSE target

\* ros::spinOnce(): the callbacks of the queued messages, oldest first
RECURSIVE SpinOnce(_, _)
SpinOnce(target, queue) ==
  IF queue = <<>> THEN target
  ELSE SpinOnce(transCallback(target, Head(queue)), Tail(queue))

\* the target runOnce leaves behind: runOnce takes nothing from the queue
RunOnceSpins(target, queue) == SpinOnce(target, queue)
RunOnceTarget(target, queue) == target

\* target_sample_error at the start of runOnce
TargetSampleError(target, hand_seq, n) == sampleError(target, hand_seq[n - 1])

\* config_.reg_weight in thousandths, and config_.svm_ineq_weight
RegWeight == 1
SvmIneqWeight == 1000

\* the objective runOnce writes before the inequality rows
LocomanipObjective(dim_var, cfg, cdim, sdim, cidim, hstart, starts, foot_seq, hand_seq, target, adj) ==
  LET n == cfg.motion_len
      w == cfg.tuning.adjacent_reg_weight
      target_sample_error == TargetSampleError(target, hand_seq, n)
      mat0 == SetDiag(ZeroMat(dim_var, dim_var), cdim - VelDim, VelDim, ObjScale)
      mat1 == AddDiag(mat0, 0, cdim, Lambda(target_sample_error, RegWeight))
      mat2 == SetDiag(mat1, dim_var - (sdim + cidim), sdim, ObjScale * SvmIneqWeight)
      vec0 == SetSegment(Zeros(dim_var), cdim - VelDim, target_sample_error)
      current_config ==
        CurrentConfig(hand_seq, n, CurrentConfig(foot_seq, n, Zeros(cdim), 0), hstart)
      vec1 == AddHead(vec0, MatVec(adj, current_config, cdim), cdim)
      vec2 == SubSegment(vec1, 0, w, sampleError(identity_sample, starts["LeftFoot"]))
      vec3 == SubSegment(vec2, hstart, w, sampleError(identity_sample, starts["LeftHand"]))
  IN  [obj_vec |-> vec3, obj_mat |-> AddTopLeft(mat2, adj, cdim, ObjScale)]

\* the objective of the planner as it stands
LM_objective ==
  LocomanipObjective(lm_qp_coeff.dim_var, lm_config, config_dim, svm_ineq_dim,
                     collision_ineq_dim, hand_start_config_idx, start_sample_list,
                     current_foot_sample_seq, current_hand_sample_seq, target_hand_sample,
                     lm_adjacent_reg_mat)

\* everything runOnce(publish) assigns
LM_runOnceBody(publish) ==
  \E failed \in BOOLEAN,
     ub \in (IF publish /\ ~grid_loaded THEN NullGridOutcomes ELSE {"defined"}),
     vel_all \in SolverOutputs(lm_qp_coeff.dim_var, 2 * lm_config.motion_len) :
    LET n == lm_config.motion_len
        cleared == [lm_qp_coeff EXCEPT
                      !.ineq_mat = ZeroMat(lm_qp_coeff.dim_ineq, lm_qp_coeff.dim_var),
                      !.ineq_vec = Zeros(lm_qp_coeff.dim_ineq)]
        vel == LocomanipVelAll(vel_all, failed)
        foot == [i \in 0..(n - 1) |->
                   integrateVelToSample(current_foot_sample_seq[i], Segment(vel, i * VelDim))]
        hand == [i \in 0..(n - 1) |->
                   integrateVelToSample(current_hand_sample_seq[i],
                                        Segment(vel, hand_start_config_idx + i * VelDim))]
        qp_foot == QpTrajectory(current_foot_sample_seq, foot)
        rows == LocomanipIneqLoop(cleared, lm_config, start_sample_list, qp_foot, 0)
    IN  /\ lm_qp_coeff' =
             [rows EXCEPT !.ineq_mat =
                SetSlackDiag(rows.ineq_mat, rows.dim_var,
                             svm_ineq_dim + collision_ineq_dim, svm_ineq_dim)]
        /\ lm_svm_query' =
             [i \in 0..(n - 1) |->
                [limb |-> FootLimb(i),
                 sample |-> relSample(LocomanipPreSample(start_sample_list, qp_foot, i),
                                      qp_foot[i])]]
        /\ solve_failed' = failed
        /\ solver_vel' = vel_all
        /\ current_foot_sample_seq' = foot
        /\ current_hand_sample_seq' = hand
        /\ publish_arg' = publish
        /\ marker_published' =
             IF publish /\ (grid_loaded \/ ub = "garbage")
             THEN Stamped(iter + 1, LocomanipMarkerArray(lm_config, grid_loaded))
             ELSE marker_published
        /\ published' =
             IF publish /\ (grid_loaded \/ ub = "garbage")
             THEN Stamped(iter + 1,
                    LocomanipPoseArray(PublishedSeq(current_foot_sample_seq, foot),
                                       PublishedSeq(current_hand_sample_seq, hand), n))
             ELSE published
        /\ raised' = IF publish /\ ~grid_loaded /\ ub = "segfault" THEN "segfault"
                     ELSE IF publish /\ PublishCurrentStateRaises(lm_config)
                          THEN "out_of_range" ELSE "none"
        /\ lm_target_error' =
             TargetSampleError(target_hand_sample, current_hand_sample_seq, n)
        /\ target_hand_sample' = RunOnceTarget(target_hand_sample, trans_queue)
        /\ trans_queue' = trans_queue
        /\ report' = RunOnceReport(failed)
        /\ iter' = iter + 1

\* configure(): config_.load().  A call after setup() is taken with the values
\* that setup() has sized and filled the QP from (motion_len and the tuning)
\* as they are.
LM_configure ==
  /\ variant = "locomanip"
  /\ lm_pc = "none"
  /\ raised # "segfault"
  /\ \E cfg \in LocomanipConfigs :
       /\ phase = "setup" =>
            /\ cfg.motion_len = lm_config.motion_len
            /\ cfg.tuning = lm_config.tuning
       /\ lm_config' = cfg
  /\ current_foot_sample_seq' = ConfigureKeepsTrajectory(current_foot_sample_seq)
  /\ current_hand_sample_seq' = ConfigureKeepsTrajectory(current_hand_sample_seq)
  /\ phase' = IF phase = "setup" THEN "setup" ELSE "configured"
  /\ UNCHANGED <<variant, grid_loaded, qp_obj, util_vars, target_vars, iter, solve_failed, solver_vel, publish_arg, raised, report, published, marker_published,
                 fs_vars, lm_dims, lm_qp_coeff, lm_adjacent_reg_mat, start_sample_list,
                 lm_svm_query, lm_target_error, loop_vars>>

\* setup() called directly
LM_setup ==
  /\ variant = "locomanip"
  /\ phase = "configured"
  /\ lm_pc = "none"
  /\ LM_setupBody
  /\ phase' = "setup"
  /\ UNCHANGED <<variant, grid_loaded, qp_obj, util_vars, target_vars, iter, solve_failed, solver_vel, publish_arg, raised, report, published, marker_published,
                 fs_vars, lm_config, lm_svm_query, lm_target_error, loop_vars>>

\* setup() called again on a planner that is set up
LM_setupAgain ==
  /\ variant = "locomanip"
  /\ phase = "setup"
  /\ lm_pc = "none"
  /\ raised # "segfault"
  /\ LM_setupBody
  /\ UNCHANGED <<variant, grid_loaded, qp_obj, util_vars, target_vars, phase, iter, solve_failed, solver_vel, publish_arg, raised, report, published, marker_published,
                 fs_vars, lm_config, lm_svm_query, lm_target_error, loop_vars>>

\* runOnce(publish) called directly
\* runOnce(publish) called directly, but for obj_mat_ and obj_vec_
LM_runOnceCall ==
  /\ variant = "locomanip"
  /\ phase = "setup"
  /\ lm_pc = "none"
  /\ raised # "segfault"
  /\ iter < MaxIter
  /\ \E publish \in BOOLEAN : LM_runOnceBody(publish)
  /\ UNCHANGED <<variant, grid_loaded, util_vars, phase, fs_vars, lm_config, lm_dims, lm_adjacent_reg_mat,
                 start_sample_list, loop_vars>>

\* runOnce(publish), the objective not followed
LM_runOnce ==
  /\ LM_runOnceCall
  /\ UNCHANGED qp_obj

\* runOnce(publish) with the objective it writes first
LM_runOnceObjective ==
  /\ LM_runOnceCall
  /\ qp_obj' = LM_objective

\* runLoop(): setup(), then the rate object and loop_idx = 0
LM_runLoop_start ==
  /\ variant = "locomanip"
  /\ phase = "configured"
  /\ lm_pc = "none"
  /\ LM_setupBody
  /\ phase' = "setup"
  /\ lm_pc' = "test"
  /\ loop_idx' = 0
  /\ UNCHANGED <<variant, grid_loaded, qp_obj, util_vars, target_vars, iter, solve_failed, solver_vel, publish_arg, raised, report, published, marker_published,
                 fs_vars, lm_config, lm_svm_query, lm_target_error, ros_ok>>

\* the condition of the while of runLoop
RunLoopConditionStopsOnFailure(ok, failed) == ok /\ ~failed
RunLoopCondition(ok, failed) == ok

\* while (ros::ok())
LM_runLoop_test ==
  /\ lm_pc = "test"
  /\ lm_pc' = IF RunLoopCondition(ros_ok, solve_failed) THEN "body" ELSE "done"
  /\ UNCHANGED <<common_vars, fs_vars, lm_vars, loop_idx, ros_ok, target_vars>>

\* runOnce(loop_idx % publish_interval == 0), but for obj_mat_ and obj_vec_;
\* an exception leaves runLoop
LM_runLoop_bodyCall ==
  /\ lm_pc = "body"
  /\ iter < MaxIter
  /\ LM_runOnceBody(loop_idx % lm_config.publish_interval = 0)
  /\ lm_pc' = IF raised' = "none" THEN "sleep" ELSE "aborted"
  /\ UNCHANGED <<variant, grid_loaded, util_vars, phase, fs_vars, lm_config, lm_dims, lm_adjacent_reg_mat,
                 start_sample_list, loop_idx, ros_ok>>

\* the body of the while of runLoop, the objective not followed
LM_runLoop_body ==
  /\ LM_runLoop_bodyCall
  /\ UNCHANGED qp_obj

\* the body of the while of runLoop with the objective runOnce writes first
LM_runLoop_bodyObjective ==
  /\ LM_runLoop_bodyCall
  /\ qp_obj' = LM_objective

\* rate.sleep(); ros::spinOnce(); loop_idx++
LM_runLoop_sleepSpin ==
  /\ lm_pc = "sleep"
  /\ target_hand_sample' = SpinOnce(target_hand_sample, trans_queue)
  /\ trans_queue' = <<>>
  /\ lm_pc' = "test"
  /\ loop_idx' = loop_idx + 1
  /\ UNCHANGED <<common_vars, fs_vars, lm_vars, ros_ok>>

\* the external stop signal: ros::ok() becomes false
RosShutdown ==
  /\ lm_pc \in {"body", "sleep"}
  /\ ros_ok
  /\ ros_ok' = FALSE
  /\ UNCHANGED <<common_vars, fs_vars, lm_vars, lm_pc, loop_idx, target_vars>>

\* longest queue of waiting messages tried
MaxQueue == 1

\* the messages tried on the interactive_marker_transform topic
TransMsgChoices ==
  {[child_frame_id |-> "target", transform |-> [trans |-> <<2, 1>>, yaw |-> 1]],
   [child_frame_id |-> "other", transform |-> [trans |-> <<0, 3>>, yaw |-> 0]]}

\* a message arrives on the topic of trans_sub_ while runOnce or rate.sleep()
\* runs: it waits in the subscriber queue until the next ros::spinOnce().
\* Nothing is delivered once the node is shut down.
TransArrive ==
  /\ variant = "locomanip"
  /\ lm_pc \in {"body", "sleep"}
  /\ ros_ok
  /\ Len(trans_queue) < MaxQueue
  /\ \E msg \in TransMsgChoices : trans_queue' = Append(trans_queue, msg)
  /\ UNCHANGED <<common_vars, fs_vars, lm_vars, loop_vars, target_hand_sample>>

\* ------------------------------------------------------- specification
\* the state after construction, but for the planner chosen and its grid set
InitCommon ==
  /\ phase = "constructed"
  /\ iter = 0
  /\ solve_failed = FALSE
  /\ solver_vel = <<>>
  /\ publish_arg = FALSE
  /\ raised = "none"
  /\ report = "none"
  /\ published = <<>>
  /\ fs_config = FootstepDefaultConfig
  /\ fs_qp_coeff = QpCoeffSetup(0, 0, 0)
  /\ fs_adjacent_reg_mat = ZeroMat(0, 0)
  /\ current_sample_seq = <<>>
  /\ fs_svm_query = <<>>
  /\ lm_config = LocomanipDefaultConfig
  /\ config_dim = 0
  /\ svm_ineq_dim = 0
  /\ collision_ineq_dim = 0
  /\ hand_start_config_idx = 0
  /\ lm_qp_coeff = QpCoeffSetup(0, 0, 0)
  /\ lm_adjacent_reg_mat = ZeroMat(0, 0)
  /\ start_sample_list = <<>>
  /\ current_foot_sample_seq = <<>>
  /\ current_hand_sample_seq = <<>>
  /\ lm_svm_query = <<>>
  /\ lm_pc = "none"
  /\ loop_idx = 0
  /\ ros_ok = TRUE
  /\ marker_published = <<>>
  /\ lm_target_error = <<0, 0, 0>>
  /\ target_hand_sample = identity_sample
  /\ trans_queue = <<>>
  /\ qp_obj = [obj_vec |-> <<>>, obj_mat |-> <<>>]
  /\ util_call = [op |-> "none", arg |-> 0, result |-> 0]
  /\ sample_list = <<>>
  /\ reachability_list = <<>>
  /\ sample_set_msg = <<>>

\* a planner constructed with or without a grid set (bag_path empty for no
\* grid set)
Init ==
  /\ variant \in {"footstep", "locomanip"}
  /\ grid_loaded \in BOOLEAN
  /\ InitCommon

\* the steps of the planners themselves
PlannerNext ==
  \/ FS_configure
  \/ FS_setup
  \/ FS_runOnce
  \/ LM_configure
  \/ LM_setup
  \/ LM_runOnce
  \/ LM_runLoop_start
  \/ LM_runLoop_test
  \/ LM_runLoop_body
  \/ LM_runLoop_sleepSpin
  \/ RosShutdown

Next ==
  \/ PlannerNext
  \/ TransArrive

Spec == Init /\ [][Next]_vars

\* the planners with nothing arriving on the interactive_marker_transform
\* topic
QuietSpec == Init /\ [][PlannerNext]_vars

\* the planners with a caller that may call setup() of the locomanipulation
\* planner again
ResetupNext ==
  \/ PlannerNext
  \/ LM_setupAgain

ResetupSpec == Init /\ [][ResetupNext]_vars

\* the planners with the objective every runOnce writes
ObjectiveNext ==
  \/ FS_configure
  \/ FS_setup
  \/ FS_runOnceObjective
  \/ LM_configure
  \/ LM_setup
  \/ LM_runOnceObjective
  \/ LM_runLoop_start
  \/ LM_runLoop_test
  \/ LM_runLoop_bodyObjective
  \/ LM_runLoop_sleepSpin
  \/ RosShutdown
  \/ TransArrive

ObjectiveSpec == Init /\ [][ObjectiveNext]_vars

\* ------------------------------------------------------ sampling spaces
\* enum class SamplingSpace
SamplingSpaceValue == [R2 |-> 21, SO2 |-> 22, SE2 |-> 23, R3 |-> 31, SO3 |-> 32, SE3 |-> 33]

SamplingSpaceNames == DOMAIN SamplingSpaceValue

\* the values tried as a SamplingSpace argument: the six enumerators and two
\* integers that are none of them
SamplingSpaceArgs == {SamplingSpaceValue[n] : n \in SamplingSpaceNames} \cup {0, 24}

NoInstance == [class |-> "none", space |-> "none"]

\* what a call hands back: a value or an instance, or the exception it
\* leaves by
Returned(value, instance) ==
  [value |-> value, instance |-> instance, error |-> "none", what |-> <<>>]
Thrown(error, what) ==
  [value |-> "none", instance |-> NoInstance, error |-> error, what |-> what]

\* mc_rtc::log::error_and_throw<std::runtime_error>(format, arg): the text
\* is the format with the argument put in
error_and_throw(format, arg) == Thrown("runtime_error", <<format, arg>>)

\* std::to_string(SamplingSpace)
to_stringUnknown(sampling_space) ==
  IF \E n \in SamplingSpaceNames : SamplingSpaceValue[n] = sampling_space
  THEN Returned(CHOOSE n \in SamplingSpaceNames : SamplingSpaceValue[n] = sampling_space,
                NoInstance)
  ELSE Returned("Unknown", NoInstance)
to_string(sampling_space) ==
  IF sampling_space = SamplingSpaceValue.R2 THEN Returned("R2", NoInstance)
  ELSE IF sampling_space = SamplingSpaceValue.SO2 THEN Returned("SO2", NoInstance)
  ELSE IF sampling_space = SamplingSpaceValue.SE2 THEN Returned("SE2", NoInstance)
  ELSE IF sampling_space = SamplingSpaceValue.R3 THEN Returned("R3", NoInstance)
  ELSE IF sampling_space = SamplingSpaceValue.SO3 THEN Returned("SO3", NoInstance)
  ELSE IF sampling_space = SamplingSpaceValue.SE3 THEN Returned("SE3", NoInstance)
  ELSE error_and_throw("[to_string] Unsupported SamplingSpace: {}", ToString(sampling_space))

\* the else branch of a factory: std::to_string(sampling_space) is evaluated
\* for the argument of error_and_throw, and what it throws leaves the factory
FactoryUnsupportedOwnError(format, sampling_space) ==
  error_and_throw(format, ToString(sampling_space))
FactoryUnsupported(format, sampling_space) ==
  LET str == to_string(sampling_space)
  IN  IF str.error # "none" THEN str ELSE error_and_throw(format, str.value)

\* the if / else-if chain of a factory: std::make_shared of the class for
\* the space, with arguments its constructor accepts
FactoryChain(class, format, sampling_space) ==
  IF sampling_space = SamplingSpaceValue.R2
  THEN Returned("none", [class |-> class, space |-> "R2"])
  ELSE IF sampling_space = SamplingSpaceValue.SO2
  THEN Returned("none", [class |-> class, space |-> "SO2"])
  ELSE IF sampling_space = SamplingSpaceValue.SE2
  THEN Returned("none", [class |-> class, space |-> "SE2"])
  ELSE IF sampling_space = SamplingSpaceValue.R3
  THEN Returned("none", [class |-> class, space |-> "R3"])
  ELSE IF sampling_space = SamplingSpaceValue.SO3
  THEN Returned("none", [class |-> class, space |-> "SO3"])
  ELSE IF sampling_space = SamplingSpaceValue.SE3
  THEN Returned("none", [class |-> class, space |-> "SE3"])
  ELSE FactoryUnsupported(format, sampling_space)

createRmapPlanningFootstep(sampling_space) ==
  FactoryChain("RmapPlanningFootstep",
               "[createRmapPlanningFootstep] Unsupported SamplingSpace: {}", sampling_space)

createRmapSampling(sampling_space) ==
  FactoryChain("RmapSampling", "[createRmapSampling] Unsupported SamplingSpace: {}",
               sampling_space)

\* ----------------------------------------- integration in the six spaces
\* Hamilton product of quaternions <<x, y, z, w>>
QuatMul(a, b) ==
  <<a[4] * b[1] + a[1] * b[4] + a[2] * b[3] - a[3] * b[2],
    a[4] * b[2] - a[1] * b[3] + a[2] * b[4] + a[3] * b[1],
    a[4] * b[3] + a[1] * b[2] - a[2] * b[1] + a[3] * b[4],
    a[4] * b[4] - a[1] * b[1] - a[2] * b[2] - a[3] * b[3]>>

\* the rotation of a rotation vector, as a quaternion: the identity for the
\* zero vector (no division by the zero angle), the half turn about the axis
\* for a unit vector (rotation vectors are in half turns)
ExpRotZeroIsHalfTurn(w) == <<1, 0, 0, 0>>
ExpRotZero(w) == <<0, 0, 0, 1>>

ExpRot(w) == IF w = <<0, 0, 0>> THEN ExpRotZero(w) ELSE <<w[1], w[2], w[3], 0>>

\* the samples and velocities tried in each space: translations are
\* integers, planar angles quarter turns, spatial rotations unit quaternions
SamplesOf(space) ==
  CASE space = "R2" -> {<<0, 0>>, <<1, -2>>}
    [] space = "SO2" -> {<<0>>, <<3>>}
    [] space = "SE2" -> {<<0, 0, 0>>, <<1, -2, 3>>}
    [] space = "R3" -> {<<0, 0, 0>>, <<1, -2, 4>>}
    [] space = "SO3" -> {<<0, 0, 0, 1>>, <<1, 0, 0, 0>>, <<0, 0, -1, 0>>}
    [] space = "SE3" -> {<<0, 0, 0, 0, 0, 0, 1>>, <<1, -2, 4, 0, 1, 0, 0>>}

VelsOf(space) ==
  CASE space = "R2" -> {<<0, 0>>, <<2, 1>>}
    [] space = "SO2" -> {<<0>>, <<1>>}
    [] space = "SE2" -> {<<0, 0, 0>>, <<2, 1, 1>>}
    [] space = "R3" -> {<<0, 0, 0>>, <<2, 1, -1>>}
    [] space = "SO3" -> {<<0, 0, 0>>, <<0, 1, 0>>}
    [] space = "SE3" -> {<<0, 0, 0, 0, 0, 0>>, <<2, 1, -1, 0, 0, 1>>}

\* integrateVelToSample<SamplingSpaceType>(sample, vel): addition for the
\* translation components and the planar angle, quaternion product for the
\* spatial rotation
integrateVelToSampleIn(space, sample, vel) ==
  CASE space = "R2" -> <<sample[1] + vel[1], sample[2] + vel[2]>>
    [] space = "SO2" -> <<sample[1] + vel[1]>>
    [] space = "SE2" -> integrateVelToSample(sample, vel)
    [] space = "R3" -> <<sample[1] + vel[1], sample[2] + vel[2], sample[3] + vel[3]>>
    [] space = "SO3" -> QuatMul(ExpRot(vel), sample)
    [] space = "SE3" ->
         <<sample[1] + vel[1], sample[2] + vel[2], sample[3] + vel[3]>> \o
         QuatMul(ExpRot(<<vel[4], vel[5], vel[6]>>),
                 <<sample[4], sample[5], sample[6], sample[7]>>)

\* --------------------------------------------------------- RmapSampling
\* most samples of one run tried
MaxSamples == 3

\* the samples tried (SE2)
SampleSetChoices == {<<0, 0, 0>>, <<1, -2, 3>>}

\* the index a reachable sample is written at
ReachableMsgIdxOwn(reachable_idx, i) == i
ReachableMsgIdx(reachable_idx, i) == reachable_idx

\* the index an unreachable sample is written at
UnreachableMsgIdxFromStart(size, unreachable_idx) == unreachable_idx
UnreachableMsgIdx(size, unreachable_idx) == size - 1 - unreachable_idx

\* the loop of dumpSampleSet over sample_list_
RECURSIVE DumpLoop(_, _, _, _, _, _)
DumpLoop(samples, list, flags, i, reachable_idx, unreachable_idx) ==
  LET size == Cardinality(DOMAIN list)
  IN  IF i >= size THEN samples
      ELSE LET msg_idx == IF flags[i] THEN ReachableMsgIdx(reachable_idx, i)
                          ELSE UnreachableMsgIdx(size, unreachable_idx)
           IN  DumpLoop([samples EXCEPT
                           ![msg_idx] = [position |-> list[i], is_reachable |-> flags[i]]],
                        list, flags, i + 1,
                        IF flags[i] THEN reachable_idx + 1 ELSE reachable_idx,
                        IF flags[i] THEN unreachable_idx ELSE unreachable_idx + 1)

\* sample_min: cwiseMin over the list, from the constant 1e10
SampleMin(list, j) ==
  IF DOMAIN list = {} THEN Sci(1, 10)
  ELSE LET least == CHOOSE i \in DOMAIN list : \A k \in DOMAIN list : list[i][j] <= list[k][j]
       IN  Sci(list[least][j], 0)

\* sample_max: cwiseMax over the list, from the constant -1e10
SampleMax(list, j) ==
  IF DOMAIN list = {} THEN Sci(-1, 10)
  ELSE LET most == CHOOSE i \in DOMAIN list : \A k \in DOMAIN list : list[i][j] >= list[k][j]
       IN  Sci(list[most][j], 0)

\* the message dumpSampleSet writes to the bag
dumpSampleSet(list, flags) ==
  [type |-> SamplingSpaceValue.SE2,
   samples |-> DumpLoop([k \in DOMAIN list |-> [position |-> <<>>, is_reachable |-> FALSE]],
                        list, flags, 0, 0, 0),
   min |-> [j \in 1..3 |-> SampleMin(list, j)],
   max |-> [j \in 1..3 |-> SampleMax(list, j)]]

\* run(): setupSampling(), the two resizes (the new flags are false, the new
\* samples hold whatever the memory held), loop_idx = 0
RS_run_start ==
  /\ variant = "sampling"
  /\ phase = "constructed"
  /\ \E sample_num \in 0..MaxSamples :
       /\ sample_list' \in [0..(sample_num - 1) -> SampleSetChoices]
       /\ reachability_list' = [i \in 0..(sample_num - 1) |-> FALSE]
  /\ loop_idx' = 0
  /\ phase' = "sampling"
  /\ UNCHANGED <<variant, grid_loaded, qp_obj, util_call, sample_set_msg, target_vars, iter,
                 solve_failed, solver_vel, publish_arg, raised, report, published,
                 marker_published, fs_vars, lm_vars, lm_pc, ros_ok>>

\* the while of run() is left: ros::ok() is false, or the break at
\* loop_idx == sample_num
RunLeavesLoopOnBreakOnly(ok, idx, sample_num) == idx = sample_num
RunLeavesLoop(ok, idx, sample_num) == ~ok \/ idx = sample_num

\* one turn of the while of run(): sampleOnce(loop_idx), publish, sleep,
\* spinOnce, loop_idx++.  RmapSampling::sampleOnce writes true; a sampler
\* that overrides it writes the outcome of its reachability test.
RS_run_sampleOnce ==
  /\ variant = "sampling"
  /\ phase = "sampling"
  /\ ~RunLeavesLoop(ros_ok, loop_idx, Cardinality(DOMAIN sample_list))
  /\ \E sample \in SampleSetChoices, reachable \in BOOLEAN :
       /\ sample_list' = [sample_list EXCEPT ![loop_idx] = sample]
       /\ reachability_list' = [reachability_list EXCEPT ![loop_idx] = reachable]
  /\ loop_idx' = loop_idx + 1
  /\ UNCHANGED <<variant, grid_loaded, qp_obj, util_call, sample_set_msg, target_vars, phase, iter,
                 solve_failed, solver_vel, publish_arg, raised, report, published,
                 marker_published, fs_vars, lm_vars, lm_pc, ros_ok>>

\* the while of run() is left, by the break or with ros::ok() false, and
\* dumpSampleSet(bag_path) writes the sample set
RS_run_dumpSampleSet ==
  /\ variant = "sampling"
  /\ phase = "sampling"
  /\ RunLeavesLoop(ros_ok, loop_idx, Cardinality(DOMAIN sample_list))
  /\ sample_set_msg' = dumpSampleSet(sample_list, reachability_list)
  /\ phase' = "dumped"
  /\ UNCHANGED <<variant, grid_loaded, qp_obj, util_call, sample_list, reachability_list,
                 target_vars, iter, solve_failed, solver_vel, publish_arg, raised, report,
                 published, marker_published, fs_vars, lm_vars, loop_vars>>

\* the stop signal during run()
RS_shutdown ==
  /\ variant = "sampling"
  /\ phase = "sampling"
  /\ ros_ok
  /\ ros_ok' = FALSE
  /\ UNCHANGED <<common_vars, fs_vars, lm_vars, lm_pc, loop_idx, target_vars>>

\* -------------------------------------------------------- utility calls
\* what a call on its own leaves as it is
call_unchanged ==
  <<variant, grid_loaded, qp_obj, sample_list, reachability_list, sample_set_msg, target_vars, phase,
    iter, solve_failed, solver_vel, publish_arg, raised, report, published, marker_published,
    fs_vars, lm_vars, loop_vars>>

Call_to_string ==
  /\ variant = "calls"
  /\ \E v \in SamplingSpaceArgs :
       util_call' = [op |-> "to_string", arg |-> v, result |-> to_string(v)]
  /\ UNCHANGED call_unchanged

Call_createRmapPlanningFootstep ==
  /\ variant = "calls"
  /\ \E v \in SamplingSpaceArgs :
       util_call' = [op |-> "createRmapPlanningFootstep", arg |-> v,
                     result |-> createRmapPlanningFootstep(v)]
  /\ UNCHANGED call_unchanged

Call_createRmapSampling ==
  /\ variant = "calls"
  /\ \E v \in SamplingSpaceArgs :
       util_call' = [op |-> "createRmapSampling", arg |-> v,
                     result |-> createRmapSampling(v)]
  /\ UNCHANGED call_unchanged

Call_integrateVelToSample ==
  /\ variant = "calls"
  /\ \E space \in SamplingSpaceNames :
       \E sample \in SamplesOf(space), vel \in VelsOf(space) :
         util_call' = [op |-> "integrateVelToSample",
                       arg |-> [space |-> space, sample |-> sample, vel |-> vel],
                       result |-> integrateVelToSampleIn(space, sample, vel)]
  /\ UNCHANGED call_unchanged

\* the sampling node, and the free functions called on their own
UtilInit ==
  /\ variant \in {"sampling", "calls"}
  /\ grid_loaded = FALSE
  /\ InitCommon

UtilNext ==
  \/ RS_run_start
  \/ RS_run_sampleOnce
  \/ RS_run_dumpSampleSet
  \/ RS_shutdown
  \/ Call_to_string
  \/ Call_createRmapPlanningFootstep
  \/ Call_createRmapSampling
  \/ Call_integrateVelToSample

UtilSpec == UtilInit /\ [][UtilNext]_vars

\* run() is one thread of sequential code whose calls return: a turn of its
\* while, or the dump behind it, is taken when it is the next thing to do
UtilFairSpec == UtilSpec /\ WF_vars(RS_run_sampleOnce \/ RS_run_dumpSampleSet)

\* ---------------------------------------------------------------- claims
\* a step that is a runOnce call of the named variant
RunOnceStep(v) == variant = v /\ iter' = iter + 1

IsZeroVec(v) == \A k \in DOMAIN v : v[k] = 0

C2_FootstepFailureKeepsTrajectory ==
  [][(RunOnceStep("footstep") /\ solve_failed') =>
       current_sample_seq' = current_sample_seq]_vars

ChainEntry(r, c, n, w, start, first, last) ==
  LET bi == (r - start) \div VelDim
      bj == (c - start) \div VelDim
      inside == r >= start /\ r < start + n * VelDim /\ c >= start /\ c < start + n * VelDim
      same_component == (r - start) % VelDim = (c - start) % VelDim
  IN  IF ~inside \/ ~same_component THEN 0
      ELSE IF bi = bj
           THEN (IF bi = n - 1 THEN last ELSE IF bi = 0 THEN first ELSE 2 * w)
           ELSE IF bi = bj + 1 \/ bj = bi + 1 THEN 0 - w ELSE 0

\* the adjacency matrices equal the block-tridiagonal pattern with the given
\* weight on the first diagonal block (as a multiple of w)
AdjacencyPattern(first_mult) ==
  /\ (variant = "footstep" /\ phase = "setup") =>
       LET n == fs_config.footstep_num
           w == fs_config.tuning.adjacent_reg_weight
       IN  /\ DOMAIN fs_adjacent_reg_mat = (0..(VelDim * n - 1)) \X (0..(VelDim * n - 1))
           /\ \A rc \in DOMAIN fs_adjacent_reg_mat :
                fs_adjacent_reg_mat[rc] = ChainEntry(rc[1], rc[2], n, w, 0, first_mult * w, w)
  /\ (variant = "locomanip" /\ phase = "setup") =>
       LET n == lm_config.motion_len
           w == lm_config.tuning.adjacent_reg_weight
       IN  /\ DOMAIN lm_adjacent_reg_mat =
                (0..(2 * VelDim * n - 1)) \X (0..(2 * VelDim * n - 1))
           /\ \A rc \in DOMAIN lm_adjacent_reg_mat :
                lm_adjacent_reg_mat[rc] =
                  ChainEntry(rc[1], rc[2], n, w, 0, first_mult * w, w)
                  + ChainEntry(rc[1], rc[2], n, w, VelDim * n, first_mult * w, w)

\* C4 as claimed: after setup() the adjacency matrix is block-tridiagonal
\* per chain, with 2w on interior diagonal blocks, w on the first and on the
\* last block, -w between neighbours and 0 elsewhere
C4_AdjacencyFirstBlockW == AdjacencyPattern(1)

\* C4 as amended: the same pattern, except that the first block carries 2w
\* like the interior ones; only the last block of a chain carries w (a chain
\* of one waypoint has the single block w)
C4_AdjacencyLastBlockW == AdjacencyPattern(2)

\* a footstep chain with a first, an interior and a last block
C4_Witness ==
  /\ variant = "footstep"
  /\ phase = "setup"
  /\ fs_config.footstep_num >= 3
  /\ fs_adjacent_reg_mat[<<0, 0>>] = 2 * fs_config.tuning.adjacent_reg_weight
  /\ fs_adjacent_reg_mat[<<VelDim, VelDim>>] = 2 * fs_config.tuning.adjacent_reg_weight
  /\ fs_adjacent_reg_mat[<<0, VelDim>>] = 0 - fs_config.tuning.adjacent_reg_weight

\* C5 as claimed: after setup() in every variant the number of QP variables
\* is vel_dim times the number of waypoints plus the number of inequality
\* rows
C5_OneSlackPerRowEveryVariant ==
  /\ (variant = "footstep" /\ phase = "setup") =>
       fs_qp_coeff.dim_var = VelDim * fs_config.footstep_num + fs_qp_coeff.dim_ineq
  /\ (variant = "locomanip" /\ phase = "setup") =>
       lm_qp_coeff.dim_var = VelDim * 2 * lm_config.motion_len + lm_qp_coeff.dim_ineq

\* C5 as amended: that count holds in locomanipulation; in footstep planning
\* the QP has vel_dim * footstep_num variables and footstep_num inequality
\* rows, none of which has a slack variable
C5_OneSlackPerRowLocomanipOnly ==
  /\ (variant = "footstep" /\ phase = "setup") =>
       /\ fs_qp_coeff.dim_var = VelDim * fs_config.footstep_num
       /\ fs_qp_coeff.dim_ineq = fs_config.footstep_num
       /\ DOMAIN fs_qp_coeff.x_min = 0..(VelDim * Cardinality(DOMAIN current_sample_seq) - 1)
  /\ (variant = "locomanip" /\ phase = "setup") =>
       /\ lm_qp_coeff.dim_var =
            VelDim * (Cardinality(DOMAIN current_foot_sample_seq)
                      + Cardinality(DOMAIN current_hand_sample_seq))
            + lm_qp_coeff.dim_ineq
       /\ DOMAIN lm_qp_coeff.x_min = 0..(lm_qp_coeff.dim_var - 1)
       /\ DOMAIN lm_qp_coeff.ineq_mat =
            (0..(lm_qp_coeff.dim_ineq - 1)) \X (0..(lm_qp_coeff.dim_var - 1))

\* locomanipulation set up with two steps: 12 velocity and 5 slack variables
C5_Witness ==
  /\ variant = "locomanip"
  /\ phase = "setup"
  /\ lm_config.motion_len = 2
  /\ lm_qp_coeff.dim_var = config_dim + lm_qp_coeff.dim_ineq
  /\ lm_qp_coeff.dim_ineq > 0

\* C6: after setup() every velocity variable has the bound
\* [-delta_config_limit, delta_config_limit] and every slack variable the
\* bound [-1e10, 1e10], and runOnce leaves the bounds as they are
C6_VariableBounds ==
  /\ (variant = "footstep" /\ phase = "setup") =>
       \A k \in 0..(fs_qp_coeff.dim_var - 1) :
         /\ fs_qp_coeff.x_min[k] = Sci(0 - fs_config.tuning.delta_config_limit, 0)
         /\ fs_qp_coeff.x_max[k] = Sci(fs_config.tuning.delta_config_limit, 0)
  /\ (variant = "locomanip" /\ phase = "setup") =>
       \A k \in 0..(lm_qp_coeff.dim_var - 1) :
         IF k < VelDim * 2 * lm_config.motion_len
         THEN /\ lm_qp_coeff.x_min[k] = Sci(0 - lm_config.tuning.delta_config_limit, 0)
              /\ lm_qp_coeff.x_max[k] = Sci(lm_config.tuning.delta_config_limit, 0)
         ELSE /\ lm_qp_coeff.x_min[k] = Sci(-1, 10)
              /\ lm_qp_coeff.x_max[k] = Sci(1, 10)

\* locomanipulation after two runOnce calls, velocity and slack bounds in place
C6_Witness ==
  /\ variant = "locomanip"
  /\ phase = "setup"
  /\ iter = 2
  /\ lm_config.tuning.delta_config_limit = 2
  /\ lm_qp_coeff.x_max[0] = Sci(2, 0)
  /\ lm_qp_coeff.x_min[lm_qp_coeff.dim_var - 1] = Sci(-1, 10)

\* C7: in locomanipulation, where only the foot-to-foot rows are written, the
\* QP has exactly 3 * motion_len - 1 inequality rows
C7_LocomanipIneqRowCount ==
  (variant = "locomanip" /\ phase = "setup") =>
    /\ lm_qp_coeff.dim_ineq = 3 * lm_config.motion_len - 1
    /\ DOMAIN lm_qp_coeff.ineq_vec = 0..(3 * lm_config.motion_len - 2)
    /\ DOMAIN lm_qp_coeff.ineq_mat =
         (0..(3 * lm_config.motion_len - 2)) \X (0..(lm_qp_coeff.dim_var - 1))

\* two steps: five rows, of which runOnce has written the first two
C7_Witness ==
  /\ variant = "locomanip"
  /\ phase = "setup"
  /\ iter >= 1
  /\ lm_config.motion_len = 2
  /\ lm_qp_coeff.dim_ineq = 5
  /\ lm_qp_coeff.ineq_vec[1] # 0
  /\ lm_qp_coeff.ineq_vec[4] = 0

\* the entries of row `row` of M in the VelDim columns from col on
RowBlock(M, row, col) == [j \in 1..VelDim |-> M[<<row, col + j - 1>>]]

\* -grad * J as the row block the code writes
NegGradTimes(grad, J) == NegVec(RowTimesMat(grad, J))

\* largest number of foot-to-hand rows tried behind the foot-to-foot rows
MaxHandRows == 3

\* the foot-to-foot loop and the slack diagonal of runOnce, run on a QP that
\* has n_hand rows for the foot-to-hand group behind the motion_len foot rows
LayoutWithHandRows(n_hand) ==
  LET m == lm_config.motion_len
      q == QpCoeffSetup(config_dim + m + n_hand, 0, m + n_hand)
      rows == LocomanipIneqLoop(q, lm_config, start_sample_list, current_foot_sample_seq, 0)
  IN  [rows EXCEPT !.ineq_mat = SetSlackDiag(rows.ineq_mat, rows.dim_var, m + n_hand, m + n_hand)]

ReachabilityRows(Rhs(_, _)) ==
  /\ RunOnceStep("footstep") =>
       \A i \in 0..(fs_config.footstep_num - 1) :
         LET rel == fs_svm_query'[i]
             grad == calcSVMGrad("LeftFoot", rel)
             q == fs_qp_coeff'
         IN  /\ q.ineq_vec[i] = Rhs(calcSVMValue("LeftFoot", rel), fs_config.tuning.svm_thre)
             /\ RowBlock(q.ineq_mat, i, i * VelDim) =
                  NegGradTimes(grad, FootstepRelVelMat(fs_config, current_sample_seq, i, TRUE))
             /\ i > 0 =>
                  RowBlock(q.ineq_mat, i, (i - 1) * VelDim) =
                    NegGradTimes(grad, FootstepRelVelMat(fs_config, current_sample_seq, i, FALSE))
  /\ RunOnceStep("locomanip") =>
       \A i \in 0..(lm_config.motion_len - 1) :
         LET rel == lm_svm_query'[i].sample
             limb == lm_svm_query'[i].limb
             grad == calcSVMGrad(limb, rel)
             pre == LocomanipPreSample(start_sample_list, current_foot_sample_seq, i)
             suc == current_foot_sample_seq[i]
             q == lm_qp_coeff'
         IN  /\ rel = relSample(pre, suc)
             /\ q.ineq_vec[i] = Rhs(calcSVMValue(limb, rel), lm_config.tuning.svm_thre)
             /\ RowBlock(q.ineq_mat, i, i * VelDim) =
                  NegGradTimes(grad, relVelToVelMat(pre, suc, TRUE))
             /\ i > 0 =>
                  RowBlock(q.ineq_mat, i, (i - 1) * VelDim) =
                    NegGradTimes(grad, relVelToVelMat(pre, suc, FALSE))

ThresholdMinusValue(value, svm_thre) == svm_thre - value
ValueMinusThreshold(value, svm_thre) == value - svm_thre

\* C9 as claimed: every reachability row has the coefficients
\* -gradient * Jacobian and the right-hand side threshold - value
C9_RhsThresholdMinusValue == [][ReachabilityRows(ThresholdMinusValue)]_vars

\* C9 as amended: every reachability row has the coefficients
\* -gradient * Jacobian and the right-hand side value - threshold
C9_RhsValueMinusThreshold == [][ReachabilityRows(ValueMinusThreshold)]_vars

\* a footstep row whose decision value differs from the threshold, with a
\* non-zero coefficient
C9_Witness ==
  /\ variant = "footstep"
  /\ iter >= 1
  /\ fs_config.footstep_num >= 2
  /\ fs_qp_coeff.ineq_vec[1] =
       calcSVMValue("LeftFoot", fs_svm_query[1]) - fs_config.tuning.svm_thre
  /\ fs_qp_coeff.ineq_vec[1] # 0
  /\ \E c \in 0..(2 * VelDim - 1) : fs_qp_coeff.ineq_mat[<<1, c>>] # 0

\* C10: in footstep planning with alternate_lr, the relative sample of step i
\* reaches the classifier with its lateral component and rotation negated
\* exactly when i is odd, and the rows of exactly those steps use both
\* Jacobians with their two bottom rows negated; even steps use neither
C10_MirrorIffOddStep ==
  [][(RunOnceStep("footstep") /\ fs_config.alternate_lr) =>
       \A i \in 0..(fs_config.footstep_num - 1) :
         LET pre == IF i = 0 THEN poseToSample(IdentityPose) ELSE current_sample_seq[i - 1]
             suc == current_sample_seq[i]
             rel == relSample(pre, suc)
             J_suc == relVelToVelMat(pre, suc, TRUE)
             J_pre == relVelToVelMat(pre, suc, FALSE)
             odd == i % 2 = 1
             query == fs_svm_query'[i]
             grad == calcSVMGrad("LeftFoot", query)
             Flip(J) == <<J[1], NegVec(J[2]), NegVec(J[3])>>
         IN  /\ query = (IF odd THEN <<rel[1], 0 - rel[2], 0 - rel[3]>> ELSE rel)
             /\ RowBlock(fs_qp_coeff'.ineq_mat, i, i * VelDim) =
                  NegGradTimes(grad, IF odd THEN Flip(J_suc) ELSE J_suc)
             /\ i > 0 =>
                  RowBlock(fs_qp_coeff'.ineq_mat, i, (i - 1) * VelDim) =
                    NegGradTimes(grad, IF odd THEN Flip(J_pre) ELSE J_pre)]_vars

\* an odd step whose mirrored sample differs from the plain one, next to an
\* even step that went in unmirrored (the solve left the trajectory in place)
C10_Witness ==
  /\ variant = "footstep"
  /\ phase = "setup"
  /\ iter >= 1
  /\ fs_config.alternate_lr
  /\ fs_config.footstep_num >= 2
  /\ IsZeroVec(solver_vel)
  /\ fs_svm_query[0] = relSample(poseToSample(IdentityPose), current_sample_seq[0])
  /\ fs_svm_query[1] = MirrorSample(relSample(current_sample_seq[0], current_sample_seq[1]))
  /\ fs_svm_query[1] # relSample(current_sample_seq[0], current_sample_seq[1])

\* C11: runLoop has no exit of its own.  With ros::ok() true the test of the
\* while goes to runOnce; a runOnce that returns goes to the sleep, whether
\* the solve failed or returned the zero vector; the sleep goes back to the
\* test; and the loop is left for the end of runLoop only with ros::ok() false
C11_RunLoopStopsOnlyOnSignal ==
  [][/\ (lm_pc = "test" /\ lm_pc' # "test" /\ ros_ok) => lm_pc' = "body"
     /\ (lm_pc = "body" /\ iter' = iter + 1 /\ raised' = "none") => lm_pc' = "sleep"
     /\ (lm_pc = "sleep" /\ lm_pc' # "sleep") => lm_pc' = "test"
     /\ (lm_pc # "done" /\ lm_pc' = "done") => (lm_pc = "test" /\ ~ros_ok)]_vars

\* runLoop went round again after a failed solve, then made an iteration
\* whose solve returned the zero vector, and ended on the stop signal
C11_Witness ==
  /\ lm_pc = "done"
  /\ ~ros_ok
  /\ iter = 2
  /\ loop_idx = 2
  /\ ~solve_failed
  /\ IsZeroVec(solver_vel)
  /\ raised = "none"

\* C12: the target is written from the spin step of runLoop alone, by the
\* callbacks of the messages that waited in the queue; runOnce reads it once
\* for target_sample_error and leaves it and the queue as they were, so the
\* target is the same at the end of a runOnce as at its start
C12_TargetChangesOnlyInSpin ==
  [][/\ RunOnceStep("locomanip") =>
          /\ target_hand_sample' = target_hand_sample
          /\ trans_queue' = trans_queue
          /\ lm_target_error' =
               sampleError(target_hand_sample,
                           current_hand_sample_seq[lm_config.motion_len - 1])
     /\ target_hand_sample' # target_hand_sample =>
          /\ lm_pc = "sleep"
          /\ lm_pc' = "test"
          /\ iter' = iter
          /\ target_hand_sample' = SpinOnce(target_hand_sample, trans_queue)]_vars

\* the second runOnce of runLoop ran with a target set by the first spin and
\* ended with a message for the target still waiting
C12_Witness ==
  /\ lm_pc = "sleep"
  /\ iter = 2
  /\ raised = "none"
  /\ target_hand_sample # identity_sample
  /\ lm_target_error =
       sampleError(target_hand_sample, current_hand_sample_seq[lm_config.motion_len - 1])
  /\ trans_queue # <<>>
  /\ trans_queue[1].child_frame_id = "target"

\* C13: runOnce publishes only when called with publish true, and what it
\* publishes is read after every waypoint has been integrated: the pose
\* array sent by an iteration holds the sequences as that iteration leaves
\* them.  Nothing is sent outside runOnce.
C13_PublishedIsEndOfIteration ==
  [][/\ RunOnceStep("footstep") =>
          IF publish_arg'
          THEN /\ published' = Stamped(iter', FootstepPoseArray(current_sample_seq',
                                                               fs_config.footstep_num))
               /\ marker_published'.stamp = iter'
          ELSE published' = published /\ marker_published' = marker_published
     /\ RunOnceStep("locomanip") =>
          IF publish_arg' /\ raised' # "segfault"
          THEN /\ published' = Stamped(iter', LocomanipPoseArray(current_foot_sample_seq',
                                                                current_hand_sample_seq',
                                                                lm_config.motion_len))
               /\ marker_published'.stamp = iter'
          ELSE published' = published /\ marker_published' = marker_published
     /\ (published' # published \/ marker_published' # marker_published) =>
          (iter' = iter + 1 /\ publish_arg')]_vars

\* a second iteration published sequences that its own integration had
\* moved, after a first one that published too
C13_Witness ==
  /\ iter = 2
  /\ publish_arg
  /\ ~solve_failed
  /\ ~IsZeroVec(solver_vel)
  /\ raised = "none"
  /\ published # <<>>
  /\ published.stamp = 2
  /\ variant = "locomanip" =>
       published.body = LocomanipPoseArray(current_foot_sample_seq, current_hand_sample_seq,
                                           lm_config.motion_len)
  /\ variant = "footstep" =>
       published.body = FootstepPoseArray(current_sample_seq, fs_config.footstep_num)

\* C14: in the sample set dumpSampleSet writes, every record flagged
\* reachable stands at a smaller index than every record flagged unreachable,
\* whatever the samples and the flags of the two lists
C14_ReachableBeforeUnreachable ==
  phase = "dumped" =>
    \A a, b \in DOMAIN sample_set_msg.samples :
      (sample_set_msg.samples[a].is_reachable /\ ~sample_set_msg.samples[b].is_reachable)
        => a < b

\* a dump of lists that had an unreachable sample before a reachable one
C14_Witness ==
  /\ phase = "dumped"
  /\ Cardinality(DOMAIN sample_list) = 3
  /\ ~reachability_list[0]
  /\ reachability_list[1]
  /\ ~reachability_list[2]
  /\ sample_set_msg.samples[0].is_reachable
  /\ sample_set_msg.samples[0].position = sample_list[1]

\* the arguments that are one of the six enumerators
IsEnumerator(v) == \E n \in SamplingSpaceNames : SamplingSpaceValue[n] = v

\* C15: called with a value that is none of the six enumerators, each of
\* createRmapPlanningFootstep, createRmapSampling and std::to_string leaves
\* by a runtime_error whose text holds the value, and hands back no instance
\* and no string; called with an enumerator, the factories hand back an
\* instance for that space and std::to_string its name, and nothing is thrown
C15_UnsupportedSpaceRaises ==
  util_call.op \in {"to_string", "createRmapPlanningFootstep", "createRmapSampling"} =>
    IF IsEnumerator(util_call.arg)
    THEN /\ util_call.result.error = "none"
         /\ SamplingSpaceValue[IF util_call.op = "to_string"
                                THEN util_call.result.value
                                ELSE util_call.result.instance.space] = util_call.arg
         /\ util_call.op # "to_string" =>
              util_call.result.instance.class =
                (IF util_call.op = "createRmapSampling" THEN "RmapSampling"
                 ELSE "RmapPlanningFootstep")
    ELSE /\ util_call.result.error = "runtime_error"
         /\ util_call.result.instance = NoInstance
         /\ util_call.result.value = "none"
         /\ util_call.result.what[2] = ToString(util_call.arg)

\* a factory called with 24, which is no enumerator
C15_Witness ==
  /\ util_call.op = "createRmapSampling"
  /\ util_call.arg = 24
  /\ util_call.result.error = "runtime_error"
  /\ util_call.result.what = <<"[to_string] Unsupported SamplingSpace: {}", "24">>

C16_TrajectoryChangedOnlyByIntegration ==
  [][phase = "setup" =>
       /\ (\/ current_sample_seq' # current_sample_seq
           \/ current_foot_sample_seq' # current_foot_sample_seq
           \/ current_hand_sample_seq' # current_hand_sample_seq) => iter' = iter + 1
       /\ RunOnceStep("footstep") =>
            current_sample_seq' =
              [i \in DOMAIN current_sample_seq |->
                 integrateVelToSample(current_sample_seq[i], Segment(solver_vel', i * VelDim))]
       /\ RunOnceStep("locomanip") =>
            LET vel == LocomanipVelAll(solver_vel', solve_failed')
            IN  /\ current_foot_sample_seq' =
                     [i \in DOMAIN current_foot_sample_seq |->
                        integrateVelToSample(current_foot_sample_seq[i],
                                             Segment(vel, i * VelDim))]
                /\ current_hand_sample_seq' =
                     [i \in DOMAIN current_hand_sample_seq |->
                        integrateVelToSample(current_hand_sample_seq[i],
                                             Segment(vel, hand_start_config_idx + i * VelDim))]]_vars

\* runLoop after one iteration that moved the trajectory and published it,
\* and one spin whose callback set the target: the foot waypoints are the
\* setup() values with that one velocity integrated
C16_Witness ==
  /\ variant = "locomanip"
  /\ phase = "setup"
  /\ lm_pc = "test"
  /\ iter = 1
  /\ publish_arg
  /\ raised = "none"
  /\ ~solve_failed
  /\ ~IsZeroVec(solver_vel)
  /\ target_hand_sample # identity_sample
  /\ current_foot_sample_seq =
       [i \in 0..(lm_config.motion_len - 1) |->
          integrateVelToSample(start_sample_list[FootLimb(i)],
                               Segment(solver_vel, i * VelDim))]
  /\ current_foot_sample_seq[0] # start_sample_list[FootLimb(0)]

\* C17: from setup() on, through every runOnce, failed or not, the footstep
\* planner holds footstep_num waypoints and the locomanipulation planner
\* motion_len foot waypoints and motion_len hand waypoints
C17_TrajectoryLengthIsHorizon ==
  phase = "setup" =>
    /\ variant = "footstep" =>
         DOMAIN current_sample_seq = 0..(fs_config.footstep_num - 1)
    /\ variant = "locomanip" =>
         /\ DOMAIN current_foot_sample_seq = 0..(lm_config.motion_len - 1)
         /\ DOMAIN current_hand_sample_seq = 0..(lm_config.motion_len - 1)

\* two runOnce calls on a horizon of two, the last one with a failed solve
C17_Witness ==
  /\ variant = "locomanip"
  /\ phase = "setup"
  /\ iter = 2
  /\ solve_failed
  /\ lm_config.motion_len = 2
  /\ Cardinality(DOMAIN current_foot_sample_seq) = 2
  /\ Cardinality(DOMAIN current_hand_sample_seq) = 2

\* the marker array with no grid marker in it
OnlyDeleteMarker == <<[ns |-> "DELETEALL", idx |-> 0, points |-> "none"]>>

\* C18 as claimed: a planner constructed without a grid set runs
\* runOnce(true) to its end in either variant: nothing is raised, the marker
\* array sent holds no grid marker, and the trajectory is integrated and its
\* pose array sent as with a grid set (the configuration giving the poses of
\* both feet, which publishCurrentState needs with or without a grid set)
C18_NoGridPlanningUnaffected ==
  [][(/\ iter' = iter + 1
      /\ ~grid_loaded
      /\ publish_arg'
      /\ variant = "locomanip" => ~PublishCurrentStateRaises(lm_config)) =>
       /\ raised' = "none"
       /\ marker_published' = Stamped(iter', OnlyDeleteMarker)
       /\ published'.stamp = iter'
       /\ variant = "footstep" =>
            published'.body = FootstepPoseArray(current_sample_seq', fs_config.footstep_num)
       /\ variant = "locomanip" =>
            published'.body = LocomanipPoseArray(current_foot_sample_seq',
                                                 current_hand_sample_seq',
                                                 lm_config.motion_len)]_vars

\* C19: runLoop does its one setup() as it starts, before any runOnce, on
\* the configuration loaded before, and no step of the loop sets up or
\* configures again; runOnce runs from the body of the loop, one call per
\* turn; and within a runOnce the reachability rows are built from the
\* trajectory as the call found it, the velocity integrated is the one solved
\* in this call, and what is published is the trajectory after the integration
C19_ConfigureSetupIterate ==
  [][/\ (lm_pc = "none" /\ lm_pc' # "none") =>
          (phase' = "setup" /\ lm_pc' = "test" /\ iter' = 0 /\ lm_config' = lm_config)
     /\ lm_pc # "none" =>
          /\ phase = "setup" /\ phase' = "setup"
          /\ <<lm_config, lm_dims, lm_adjacent_reg_mat, start_sample_list>>' =
               <<lm_config, lm_dims, lm_adjacent_reg_mat, start_sample_list>>
          /\ iter' # iter => (lm_pc = "body" /\ iter' = iter + 1 /\ loop_idx = iter)
     /\ RunOnceStep("footstep") =>
          /\ fs_svm_query' = [i \in DOMAIN current_sample_seq |->
                                FootstepRelSample(fs_config, current_sample_seq, i)]
          /\ current_sample_seq' =
               [i \in DOMAIN current_sample_seq |->
                  integrateVelToSample(current_sample_seq[i], Segment(solver_vel', i * VelDim))]
          /\ publish_arg' =>
               published'.body = FootstepPoseArray(current_sample_seq', fs_config.footstep_num)
     /\ RunOnceStep("locomanip") =>
          /\ lm_svm_query' =
               [i \in DOMAIN current_foot_sample_seq |->
                  [limb |-> FootLimb(i),
                   sample |-> relSample(LocomanipPreSample(start_sample_list,
                                                           current_foot_sample_seq, i),
                                        current_foot_sample_seq[i])]]
          /\ current_foot_sample_seq' =
               [i \in DOMAIN current_foot_sample_seq |->
                  integrateVelToSample(
                    current_foot_sample_seq[i],
                    Segment(LocomanipVelAll(solver_vel', solve_failed'), i * VelDim))]
          /\ (publish_arg' /\ raised' # "segfault") =>
               published'.body = LocomanipPoseArray(current_foot_sample_seq',
                                                    current_hand_sample_seq',
                                                    lm_config.motion_len)]_vars

\* the second iteration of runLoop has moved the trajectory and published
\* it: the samples its rows were built from are not those of the trajectory
\* it left
C19_Witness ==
  /\ variant = "locomanip"
  /\ lm_pc = "sleep"
  /\ loop_idx = 1
  /\ iter = 2
  /\ publish_arg
  /\ raised = "none"
  /\ ~solve_failed
  /\ ~IsZeroVec(solver_vel)
  /\ published.stamp = 2
  /\ lm_svm_query[0].sample #
       relSample(start_sample_list["RightFoot"], current_foot_sample_seq[0])

\* the message formats of the two factories
FactoryFormats ==
  {"[createRmapPlanningFootstep] Unsupported SamplingSpace: {}",
   "[createRmapSampling] Unsupported SamplingSpace: {}"}

\* C30: a factory called with a value that is none of the six enumerators
\* leaves by the error raised inside std::to_string, whose text has the
\* "[to_string]" format and the value as an integer; no call of a factory,
\* whatever its argument, ends with the factory's own "Unsupported
\* SamplingSpace" error
C30_FactoryErrorIsToStringError ==
  util_call.op \in {"createRmapPlanningFootstep", "createRmapSampling"} =>
    /\ ~IsEnumerator(util_call.arg) =>
         /\ util_call.result = to_string(util_call.arg)
         /\ util_call.result.error = "runtime_error"
         /\ util_call.result.what =
              <<"[to_string] Unsupported SamplingSpace: {}", ToString(util_call.arg)>>
    /\ util_call.result.error # "none" => util_call.result.what[1] \notin FactoryFormats

\* the footstep factory called with 0, which is no enumerator
C30_Witness ==
  /\ util_call.op = "createRmapPlanningFootstep"
  /\ util_call.arg = 0
  /\ util_call.result.error = "runtime_error"
  /\ util_call.result.what[1] = "[to_string] Unsupported SamplingSpace: {}"
  /\ util_call.result.what[2] = "0"

\* the record index of input sample i: the number of reachable samples before
\* it, or, for an unreachable one, the last index less the number of
\* unreachable samples before it
RecordIndexOf(flags, i) ==
  IF flags[i]
  THEN Cardinality({j \in DOMAIN flags : j < i /\ flags[j]})
  ELSE Cardinality(DOMAIN flags) - 1 - Cardinality({j \in DOMAIN flags : j < i /\ ~flags[j]})

\* C26: the records dumpSampleSet writes are a permutation of its input.
\* Every input sample is at one record index, with its own flag; two samples
\* never share an index and no index is left unwritten; reachable samples
\* stand in input order and unreachable samples in reverse input order
C26_DumpIsPermutation ==
  phase = "dumped" =>
    LET D == DOMAIN sample_list
        rec == sample_set_msg.samples
        idx(i) == RecordIndexOf(reachability_list, i)
    IN  /\ DOMAIN rec = D
        /\ \A i \in D :
             /\ idx(i) \in D
             /\ rec[idx(i)] = [position |-> sample_list[i],
                               is_reachable |-> reachability_list[i]]
        /\ \A i, j \in D : i # j => idx(i) # idx(j)
        /\ \A k \in D : \E i \in D : idx(i) = k
        /\ \A i, j \in D :
             (i < j /\ reachability_list[i] = reachability_list[j]) =>
               IF reachability_list[i] THEN idx(i) < idx(j) ELSE idx(i) > idx(j)

\* a dump of three samples, unreachable, reachable, unreachable, the two
\* unreachable ones different: they are written in reverse order at the end
C26_Witness ==
  /\ phase = "dumped"
  /\ Cardinality(DOMAIN sample_list) = 3
  /\ reachability_list = [i \in 0..2 |-> i = 1]
  /\ sample_list[0] # sample_list[2]
  /\ sample_set_msg.samples[2].position = sample_list[0]
  /\ sample_set_msg.samples[1].position = sample_list[2]
  /\ ~sample_set_msg.samples[1].is_reachable

\* C27: in run(), sampleOnce is called with the indices 0, 1, 2, ... in turn,
\* each call writing its own index alone, and only while ros::ok() holds and
\* the index is below sample_num; run() is left through one dumpSampleSet
\* call and no other way, after sample_num samples or after the stop signal;
\* the dump has sample_num records, and after an early stop the indices never
\* sampled are in it, flagged unreachable, behind every reachable record
C27_RunSamplesInOrderThenDumpsOnce ==
  /\ [][variant = "sampling" =>
          LET size == Cardinality(DOMAIN sample_list) IN
          /\ (loop_idx' # loop_idx /\ phase = "sampling") =>
               /\ loop_idx' = loop_idx + 1
               /\ ros_ok /\ loop_idx < size
               /\ phase' = "sampling"
               /\ DOMAIN sample_list' = DOMAIN sample_list
               /\ \A k \in DOMAIN sample_list :
                    k # loop_idx => /\ sample_list'[k] = sample_list[k]
                                    /\ reachability_list'[k] = reachability_list[k]
          /\ (sample_list' # sample_list \/ reachability_list' # reachability_list) =>
               (phase = "constructed" \/ loop_idx' = loop_idx + 1)
          /\ (phase = "sampling" /\ phase' # "sampling") =>
               /\ phase' = "dumped"
               /\ ~ros_ok \/ loop_idx = size
               /\ DOMAIN sample_set_msg'.samples = 0..(size - 1)
               /\ \A k \in loop_idx..(size - 1) :
                    LET at == RecordIndexOf(reachability_list, k)
                    IN  /\ ~sample_set_msg'.samples[at].is_reachable
                        /\ sample_set_msg'.samples[at].position = sample_list[k]
                        /\ \A b \in 0..(size - 1) :
                             sample_set_msg'.samples[b].is_reachable => b < at
          /\ sample_set_msg' # sample_set_msg => (phase = "sampling" /\ phase' = "dumped")
          /\ phase = "dumped" => phase' = "dumped"]_vars
  /\ ((variant = "sampling" /\ phase = "sampling") ~> (phase = "dumped"))

\* run() for three samples was stopped after the first, which was reachable:
\* the dump has three records, the two never sampled behind it
C27_Witness ==
  /\ phase = "dumped"
  /\ ~ros_ok
  /\ loop_idx = 1
  /\ Cardinality(DOMAIN sample_set_msg.samples) = 3
  /\ reachability_list = [i \in 0..2 |-> i = 0]
  /\ sample_set_msg.samples[0] = [position |-> sample_list[0], is_reachable |-> TRUE]
  /\ sample_set_msg.samples[1] = [position |-> sample_list[2], is_reachable |-> FALSE]
  /\ sample_set_msg.samples[2] = [position |-> sample_list[1], is_reachable |-> FALSE]

\* a step that is the setup() call of the footstep planner
FootstepSetupStep == variant = "footstep" /\ phase # "setup" /\ phase' = "setup"

\* the step pose the claim names for waypoint i: the configured initial pose,
\* with lateral translation and yaw negated at odd i under alternate_lr
ClaimedStepSample(cfg, i) ==
  LET p == cfg.initial_sample_pose
  IN  IF cfg.alternate_lr /\ i % 2 = 1
      THEN <<p.trans[1], 0 - p.trans[2], 0 - p.yaw>>
      ELSE <<p.trans[1], p.trans[2], p.yaw>>

\* C24: setup() of the footstep planner leaves footstep_num waypoints, each
\* the composition of the step poses up to it: seen from the waypoint before
\* it (from identity for waypoint 0), waypoint i is the step pose of index i,
\* which is the configured initial pose, mirrored (lateral translation and
\* yaw negated) at every odd i when alternate_lr is set
C24_SetupComposesStepPoses ==
  [][FootstepSetupStep =>
       /\ DOMAIN current_sample_seq' = 0..(fs_config.footstep_num - 1)
       /\ \A i \in 0..(fs_config.footstep_num - 1) :
            LET pre == IF i = 0 THEN identity_sample ELSE current_sample_seq'[i - 1]
            IN  relSample(pre, current_sample_seq'[i]) = ClaimedStepSample(fs_config, i)]_vars

\* three alternating steps from the pose (1, 1, quarter turn): the second
\* step is taken mirrored in the turned frame of the first
C24_Witness ==
  /\ variant = "footstep"
  /\ phase = "setup"
  /\ iter = 0
  /\ fs_config.alternate_lr
  /\ fs_config.footstep_num = 3
  /\ fs_config.initial_sample_pose = [trans |-> <<1, 1>>, yaw |-> 1]
  /\ current_sample_seq[0] = <<1, 1, 1>>
  /\ current_sample_seq[1] = <<2, 2, 0>>
  /\ current_sample_seq[2] = <<3, 3, 1>>

\* a step that is the setup() call of the locomanipulation planner, made
\* directly or as runLoop starts
LocomanipSetupStep == variant = "locomanip" /\ phase = "configured" /\ phase' = "setup"

\* C25: setup() and runOnce agree on the limb of a foot step.  setup() takes
\* foot waypoint i from the start sample of the left foot for even i and of
\* the right foot for odd i, and every hand waypoint from the start sample
\* of the left hand; runOnce evaluates row i with the classifier of the left
\* foot for even i and of the right foot for odd i, on the sample of
\* waypoint i seen from waypoint i - 1, and for step 0 from the start sample
\* of the right foot
C25_LimbAssignmentConsistent ==
  [][/\ LocomanipSetupStep =>
          \A i \in 0..(lm_config.motion_len - 1) :
            /\ current_foot_sample_seq'[i] =
                 start_sample_list'[IF i % 2 = 0 THEN "LeftFoot" ELSE "RightFoot"]
            /\ current_hand_sample_seq'[i] = start_sample_list'["LeftHand"]
     /\ RunOnceStep("locomanip") =>
          \A i \in 0..(lm_config.motion_len - 1) :
            LET limb == IF i % 2 = 0 THEN "LeftFoot" ELSE "RightFoot"
                pre == IF i = 0 THEN start_sample_list["RightFoot"]
                       ELSE current_foot_sample_seq[i - 1]
                rel == relSample(pre, current_foot_sample_seq[i])
            IN  /\ lm_svm_query'[i] = [limb |-> limb, sample |-> rel]
                /\ lm_qp_coeff'.ineq_vec[i] =
                     calcSVMValue(limb, rel) - lm_config.tuning.svm_thre
                /\ RowBlock(lm_qp_coeff'.ineq_mat, i, i * VelDim) =
                     NegGradTimes(calcSVMGrad(limb, rel),
                                  relVelToVelMat(pre, current_foot_sample_seq[i], TRUE))]_vars

\* two steps set up from three different start samples and run once without
\* moving: step 0 is the left foot seen from the right-foot start sample,
\* step 1 the right foot seen from the left foot, and the two classifiers
\* gave different values
C25_Witness ==
  /\ variant = "locomanip"
  /\ phase = "setup"
  /\ iter = 1
  /\ lm_config.motion_len = 2
  /\ IsZeroVec(solver_vel)
  /\ start_sample_list["LeftFoot"] # start_sample_list["RightFoot"]
  /\ start_sample_list["LeftHand"] # start_sample_list["LeftFoot"]
  /\ current_foot_sample_seq[0] = start_sample_list["LeftFoot"]
  /\ current_foot_sample_seq[1] = start_sample_list["RightFoot"]
  /\ current_hand_sample_seq[1] = start_sample_list["LeftHand"]
  /\ lm_svm_query[0].limb = "LeftFoot"
  /\ lm_svm_query[1].limb = "RightFoot"
  /\ lm_svm_query[0].sample =
       relSample(start_sample_list["RightFoot"], start_sample_list["LeftFoot"])
  /\ calcSVMValue("LeftFoot", lm_svm_query[1].sample) #
       calcSVMValue("RightFoot", lm_svm_query[1].sample)

\* C23: after every runOnce, row i of the inequality matrix has zeros in the
\* velocity columns of every waypoint but i and, for i > 0, i - 1, whatever
\* the matrix held before the call; row 0 is built from waypoint 0 seen from
\* a pose that is no variable (identity in footstep planning, the start
\* sample of the right foot in locomanipulation) and so has the block of
\* waypoint 0 alone
C23_RowTouchesOwnAndPreviousBlock ==
  [][/\ RunOnceStep("footstep") =>
          LET n == fs_config.footstep_num
              q == fs_qp_coeff'
          IN  /\ DOMAIN q.ineq_mat = (0..(n - 1)) \X (0..(VelDim * n - 1))
              /\ \A i \in 0..(n - 1) : \A c \in 0..(VelDim * n - 1) :
                   (c \div VelDim \notin {i - 1, i}) => q.ineq_mat[<<i, c>>] = 0
              /\ fs_svm_query'[0] = relSample(identity_sample, current_sample_seq[0])
     /\ RunOnceStep("locomanip") =>
          LET m == lm_config.motion_len
              q == lm_qp_coeff'
          IN  /\ \A i \in 0..(q.dim_ineq - 1) : \A c \in 0..(config_dim - 1) :
                   (i >= m \/ c \div VelDim \notin {i - 1, i}) => q.ineq_mat[<<i, c>>] = 0
              /\ lm_svm_query'[0].sample =
                   relSample(start_sample_list["RightFoot"], current_foot_sample_seq[0])]_vars

\* a second runOnce on three footsteps: row 1 has coefficients on waypoints
\* 0 and 1 and none on waypoint 2, row 0 has coefficients on waypoint 0 only
C23_Witness ==
  /\ variant = "footstep"
  /\ phase = "setup"
  /\ iter = 2
  /\ fs_config.footstep_num = 3
  /\ \E c \in 0..(VelDim - 1) : fs_qp_coeff.ineq_mat[<<0, c>>] # 0
  /\ \E c \in 0..(VelDim - 1) : fs_qp_coeff.ineq_mat[<<1, c>>] # 0
  /\ \E c \in VelDim..(2 * VelDim - 1) : fs_qp_coeff.ineq_mat[<<1, c>>] # 0
  /\ \E c \in VelDim..(2 * VelDim - 1) : fs_qp_coeff.ineq_mat[<<2, c>>] # 0
  /\ \A c \in (2 * VelDim)..(3 * VelDim - 1) : fs_qp_coeff.ineq_mat[<<1, c>>] = 0
  /\ \A c \in VelDim..(3 * VelDim - 1) : fs_qp_coeff.ineq_mat[<<0, c>>] = 0

\* the feet with no pose in the configured list
FeetWithoutPose(cfg) == {"LeftFoot", "RightFoot"} \ DOMAIN cfg.initial_sample_pose_list

\* C28: with a pose list that lacks the left or the right foot, setup()
\* succeeds and gives the foot the identity as its start sample, and
\* runOnce(false) returns with nothing raised and the trajectory integrated;
\* runOnce(true) never returns normally: publishCurrentState sends the pose
\* array and then leaves by the missing-key error of
\* initial_sample_pose_list.at(), which ends runLoop too (the one other end
\* of such a call is the crash in publishMarkerArray, before
\* publishCurrentState is reached, when no grid set is loaded)
C28_MissingFootPoseFailsOnlyPublishing ==
  [][(variant = "locomanip" /\ FeetWithoutPose(lm_config) # {}) =>
       /\ LocomanipSetupStep =>
            /\ DOMAIN start_sample_list' = Limbs
            /\ \A l \in FeetWithoutPose(lm_config) : start_sample_list'[l] = identity_sample
            /\ DOMAIN current_foot_sample_seq' = 0..(lm_config.motion_len - 1)
       /\ (RunOnceStep("locomanip") /\ ~publish_arg') =>
            /\ raised' = "none"
            /\ published' = published
            /\ current_foot_sample_seq' =
                 [i \in DOMAIN current_foot_sample_seq |->
                    integrateVelToSample(
                      current_foot_sample_seq[i],
                      Segment(LocomanipVelAll(solver_vel', solve_failed'), i * VelDim))]
       /\ (RunOnceStep("locomanip") /\ publish_arg') =>
            /\ raised' \in {"out_of_range", "segfault"}
            /\ raised' = "segfault" => ~grid_loaded
            /\ raised' = "out_of_range" =>
                 published' = Stamped(iter', LocomanipPoseArray(current_foot_sample_seq',
                                                               current_hand_sample_seq',
                                                               lm_config.motion_len))
            /\ lm_pc = "body" => lm_pc' = "aborted"]_vars

\* runLoop on a list without the right foot, with a grid set: setup() gave
\* the right foot the identity, and the first iteration, which publishes,
\* left runLoop by the missing-key error after sending the pose array
C28_Witness ==
  /\ variant = "locomanip"
  /\ grid_loaded
  /\ lm_pc = "aborted"
  /\ iter = 1
  /\ publish_arg
  /\ raised = "out_of_range"
  /\ "RightFoot" \notin DOMAIN lm_config.initial_sample_pose_list
  /\ start_sample_list["RightFoot"] = identity_sample
  /\ start_sample_list["LeftFoot"] # identity_sample
  /\ published # <<>>
  /\ published.stamp = 1

\* a step that is a setup() call on a locomanipulation planner already set up
SetupAgainStep ==
  /\ variant = "locomanip"
  /\ phase = "setup" /\ phase' = "setup"
  /\ lm_pc = "none"
  /\ iter' = iter
  /\ lm_config' = lm_config

\* C29: once the first setup() has recorded them, the start samples are
\* never written again, whatever configure() loads later; a further setup()
\* puts every foot waypoint back on the recorded start sample of its foot
\* and every hand waypoint on that of the left hand; and the predecessor of
\* step 0 in runOnce is the recorded start sample of the right foot
C29_SetupAgainKeepsFirstStartSamples ==
  [][(variant = "locomanip" /\ phase = "setup") =>
       /\ start_sample_list' = start_sample_list
       /\ SetupAgainStep =>
            /\ current_foot_sample_seq' =
                 [i \in 0..(lm_config.motion_len - 1) |->
                    start_sample_list[IF i % 2 = 0 THEN "LeftFoot" ELSE "RightFoot"]]
            /\ current_hand_sample_seq' =
                 [i \in 0..(lm_config.motion_len - 1) |-> start_sample_list["LeftHand"]]
       /\ RunOnceStep("locomanip") =>
            lm_svm_query'[0].sample =
              relSample(start_sample_list["RightFoot"], current_foot_sample_seq[0])]_vars

\* after a runOnce that moved the trajectory and a configure() with other
\* poses for both feet, setup() was called again and a runOnce left the
\* trajectory in place: the waypoints are on the start samples of the first
\* setup(), not on the configured poses, and row 0 was taken from the right
\* foot's first start sample
C29_Witness ==
  /\ variant = "locomanip"
  /\ phase = "setup"
  /\ iter = 2
  /\ IsZeroVec(solver_vel)
  /\ raised = "none"
  /\ "LeftFoot" \in DOMAIN lm_config.initial_sample_pose_list
  /\ poseToSample(lm_config.initial_sample_pose_list["LeftFoot"]) # start_sample_list["LeftFoot"]
  /\ "RightFoot" \notin DOMAIN lm_config.initial_sample_pose_list
  /\ start_sample_list["RightFoot"] # identity_sample
  /\ current_foot_sample_seq[0] = start_sample_list["LeftFoot"]
  /\ current_hand_sample_seq[0] = start_sample_list["LeftHand"]
  /\ lm_svm_query[0].sample =
       relSample(start_sample_list["RightFoot"], start_sample_list["LeftFoot"])
  /\ published # <<>>
  /\ published.stamp = 1
  /\ published.body[0] # sampleToPose(start_sample_list["LeftFoot"])

\* the vector that is err in the block starting at start and zero elsewhere
OnlyInBlock(dim, start, err) ==
  [k \in 0..(dim - 1) |-> IF k >= start /\ k < start + VelDim THEN err[k - start + 1] ELSE 0]

\* obj_vec_ and obj_mat_ of the footstep planner without their regularization
\* terms (the adjacency term and lambda on the diagonal)
FootstepTrackingPart(q, dim, err) ==
  LET n == fs_config.footstep_num
      reg == MatVec(fs_adjacent_reg_mat, CurrentConfig(current_sample_seq, n, Zeros(dim), 0), dim)
      lambda == ObjScale * SqNorm(err) + 1
  IN  [vec |-> [k \in 0..(dim - 1) |-> q.obj_vec[k] - reg[k]],
       mat |-> [rc \in DOMAIN q.obj_mat |->
                  q.obj_mat[rc] - ObjScale * fs_adjacent_reg_mat[rc]
                    - (IF rc[1] = rc[2] THEN lambda ELSE 0)]]

\* the same for the locomanipulation planner, whose variable vector ends with
\* the slack variables and their weight
LocomanipTrackingPart(q, dim_var, err) ==
  LET n == lm_config.motion_len
      w == lm_config.tuning.adjacent_reg_weight
      cfgv == CurrentConfig(current_hand_sample_seq, n,
                CurrentConfig(current_foot_sample_seq, n, Zeros(config_dim), 0),
                hand_start_config_idx)
      adj == MatVec(lm_adjacent_reg_mat, cfgv, config_dim)
      lf == sampleError(identity_sample, start_sample_list["LeftFoot"])
      lh == sampleError(identity_sample, start_sample_list["LeftHand"])
      reg == [k \in 0..(dim_var - 1) |->
                IF k >= config_dim THEN 0
                ELSE adj[k]
                     - (IF k < VelDim THEN w * lf[k + 1] ELSE 0)
                     - (IF k >= hand_start_config_idx /\ k < hand_start_config_idx + VelDim
                        THEN w * lh[k - hand_start_config_idx + 1] ELSE 0)]
      lambda == ObjScale * SqNorm(err) + RegWeight
  IN  [vec |-> [k \in 0..(dim_var - 1) |-> q.obj_vec[k] - reg[k]],
       mat |-> [rc \in DOMAIN q.obj_mat |->
                  IF rc[1] < config_dim /\ rc[2] < config_dim
                  THEN q.obj_mat[rc] - ObjScale * lm_adjacent_reg_mat[rc]
                         - (IF rc[1] = rc[2] THEN lambda ELSE 0)
                  ELSE IF rc[1] = rc[2] THEN q.obj_mat[rc] - ObjScale * SvmIneqWeight
                  ELSE q.obj_mat[rc]]]

\* the tracking term is err in the block starting at start, with the unit
\* weight on that block's diagonal, and nothing anywhere else
TrackingOnlyOnBlock(part, dim, start, err) ==
  /\ part.vec = OnlyInBlock(dim, start, err)
  /\ \A rc \in DOMAIN part.mat :
       part.mat[rc] = IF rc[1] = rc[2] /\ rc[1] >= start /\ rc[1] < start + VelDim
                      THEN ObjScale ELSE 0

\* a step of runOnce in which the tracking term is the velocity between the
\* target and the last waypoint (the last hand waypoint in locomanipulation),
\* taken from the waypoint to the target or from the target to the waypoint
TrackingTermStep(waypoint_to_target) ==
  /\ (variant = "footstep" /\ iter' = iter + 1) =>
       LET last == current_sample_seq[fs_config.footstep_num - 1]
           err == IF waypoint_to_target THEN sampleError(last, target_hand_sample)
                  ELSE sampleError(target_hand_sample, last)
       IN  TrackingOnlyOnBlock(FootstepTrackingPart(qp_obj', fs_qp_coeff.dim_var,
                                                    sampleError(target_hand_sample, last)),
                               fs_qp_coeff.dim_var, fs_qp_coeff.dim_var - VelDim, err)
  /\ (variant = "locomanip" /\ iter' = iter + 1) =>
       LET last == current_hand_sample_seq[lm_config.motion_len - 1]
           err == IF waypoint_to_target THEN sampleError(last, target_hand_sample)
                  ELSE sampleError(target_hand_sample, last)
       IN  TrackingOnlyOnBlock(LocomanipTrackingPart(qp_obj', lm_qp_coeff.dim_var,
                                                     sampleError(target_hand_sample, last)),
                               lm_qp_coeff.dim_var,
                               hand_start_config_idx + (lm_config.motion_len - 1) * VelDim, err)

\* C22 as stated: in runOnce the target error written into the objective is
\* the velocity from the last waypoint to the goal sample, written only into
\* the last waypoint's block of the objective vector, with the unit weight
\* only on that block's diagonal.
C22_TrackingErrorFromWaypointToTarget == [][TrackingTermStep(TRUE)]_vars

\* C22 as the code has it: in runOnce the target error written into the
\* objective is sampleError(target, last waypoint), the velocity from the goal
\* sample to the last waypoint; it is written only into the last waypoint's
\* block of the objective vector, and the unit weight only onto that block's
\* diagonal; in locomanipulation the last waypoint is the last hand waypoint.
C22_TrackingErrorFromTargetToWaypoint == [][TrackingTermStep(FALSE)]_vars

C22_Witness ==
  /\ variant = "locomanip"
  /\ lm_pc = "sleep"
  /\ lm_config.motion_len >= 2
  /\ target_hand_sample # identity_sample
  /\ lm_target_error # <<0, 0, 0>>
  /\ qp_obj.obj_mat[<<config_dim - 1, config_dim - 1>>]
       - ObjScale * lm_adjacent_reg_mat[<<config_dim - 1, config_dim - 1>>]
     = ObjScale + Lambda(lm_target_error, RegWeight)
  /\ qp_obj.obj_mat[<<0, 0>>] - ObjScale * lm_adjacent_reg_mat[<<0, 0>>]
     = Lambda(lm_target_error, RegWeight)
====
